---------------------------- MODULE Spec2Model ----------------------------
(***************************************************************************)
(* Model of go-ssh: the PTY output filter (ssh.TerminalFilter) and the     *)
(* scripted interaction engine (ssh.ConnectInteractive).                   *)
(***************************************************************************)
EXTENDS Integers, Sequences, FiniteSets, TLC

(***************************************************************************)
(* Bounds                                                                  *)
(***************************************************************************)
\* Total number of bytes the PTY delivers over all reads of one filter.
MaxStream == 4

(***************************************************************************)
(* Bytes                                                                   *)
(***************************************************************************)
ESC == 27
LBRACKET == 91
SEMI == 59
\* Bytes the modelled PTY can deliver: ESC [ 1 ; R c n m and LF.
Bytes == {27, 91, 49, 59, 82, 99, 110, 109, 10}

\* Length of the slice p that io.Copy hands to Read.
ReadBufLen == 32768

Min(a, b) == IF a < b THEN a ELSE b

\* The sequence 1..n shifted to a..b.
Range(a, b) == [k \in 1..(b - a + 1) |-> a + k - 1]

\* Non-empty byte sequences of length at most n.
BSeq(n) == UNION {[1..k -> Bytes] : k \in 1..n}

RECURSIVE Flatten(_)
Flatten(ss) == IF ss = << >> THEN << >> ELSE Head(ss) \o Flatten(Tail(ss))

(***************************************************************************)
(* TerminalFilter.Read                                                     *)
(***************************************************************************)
VARIABLES
    chunks,     \* the byte slices the underlying Reader returned, in order
    tfBuffer,   \* TerminalFilter.buffer between two calls of Read
    tfEof,      \* the underlying Reader returned n == 0
    screen,     \* all bytes Read has returned so far (copied to stdout)
    keptIdx,    \* for each byte of screen, its position in the whole stream
    lastBuf,    \* tf.buffer as scanned by the latest Read (carry-over + new)
    lastKept    \* positions of lastBuf the latest Read appended to filtered

filterVars == <<chunks, tfBuffer, tfEof, screen, keptIdx, lastBuf, lastKept>>

\* The whole stream read from the PTY so far.
Stream == Flatten(chunks)

\* Parameter bytes of a CSI sequence: digits ; ? = > ! space.
IsParam(b) == (b >= 48 /\ b <= 57) \/ b \in {59, 63, 61, 62, 33, 32}

IsDigit(b) == b >= 48 /\ b <= 57

\* Terminators of terminal query responses: R, c, n.
IsQueryTerminatorNoDSR(t) == t \in {82, 99}
IsQueryTerminator(t) == t \in {82, 99, 110}

\* Any valid CSI final byte.
IsCSITerminator(t) == t >= 64 /\ t <= 126

\* Terminators of a bare ";<digits>" fragment: R, c.
IsFragmentTerminator(t) == t \in {82, 99}

\* First position >= j of buf that is not a parameter byte (Len(buf)+1 if none).
RECURSIVE ParamEnd(_, _)
ParamEnd(buf, j) ==
    IF j <= Len(buf) /\ IsParam(buf[j]) THEN ParamEnd(buf, j + 1) ELSE j

\* First position >= j of buf that is not a digit (Len(buf)+1 if none).
RECURSIVE DigitEnd(_, _)
DigitEnd(buf, j) ==
    IF j <= Len(buf) /\ IsDigit(buf[j]) THEN DigitEnd(buf, j + 1) ELSE j

\* The scanning loop of Read over tf.buffer = buf from position i (1-based),
\* with the bytes appended to filtered so far and their positions in buf.
\* buffer is the value of tf.buffer when the loop is left.
RECURSIVE Scan(_, _, _, _)
Scan(buf, i, filtered, kept) ==
    IF i > Len(buf)
    THEN [filtered |-> filtered, kept |-> kept, buffer |-> buf]
    ELSE
      LET isCSI == i + 1 <= Len(buf) /\ buf[i] = ESC /\ buf[i + 1] = LBRACKET
          j == ParamEnd(buf, i + 2)
          d == DigitEnd(buf, i + 1)
          hasDigits == d > i + 1
          plain ==
            IF buf[i] = SEMI /\ i + 1 <= Len(buf) /\ hasDigits
               /\ d <= Len(buf) /\ IsFragmentTerminator(buf[d])
            THEN Scan(buf, d + 1, filtered, kept)
            ELSE Scan(buf, i + 1, Append(filtered, buf[i]), Append(kept, i))
      IN IF isCSI
         THEN IF j <= Len(buf) /\ IsQueryTerminator(buf[j])
              THEN Scan(buf, j + 1, filtered, kept)
              ELSE IF j <= Len(buf) /\ IsCSITerminator(buf[j])
              THEN Scan(buf, j + 1, filtered \o SubSeq(buf, i, j),
                        kept \o Range(i, j))
              ELSE IF j > Len(buf)
              THEN [filtered |-> filtered, kept |-> kept,
                    buffer |-> SubSeq(buf, i, Len(buf))]
              ELSE plain
         ELSE plain

\* "Clear buffer after processing": tf.buffer = nil after the loop.
ClearBuffer(b) == << >>

\* copy(p, filtered): the bytes of filtered that fit into p.
CopyInto(pLen, filtered) == SubSeq(filtered, 1, Min(pLen, Len(filtered)))

\* Read when the underlying Reader returns the bytes p (n = Len(p) > 0).
TFRead(p) ==
    /\ ~tfEof
    /\ Len(Stream) + Len(p) <= MaxStream
    /\ LET buf == tfBuffer \o p
           r == Scan(buf, 1, << >>, << >>)
           n == Len(CopyInto(ReadBufLen, r.filtered))
           offset == Len(Stream) - Len(tfBuffer)
       IN /\ chunks' = Append(chunks, p)
          /\ tfBuffer' = ClearBuffer(r.buffer)
          /\ screen' = screen \o CopyInto(ReadBufLen, r.filtered)
          /\ keptIdx' = keptIdx \o [k \in 1..n |-> offset + r.kept[k]]
          /\ lastBuf' = buf
          /\ lastKept' = {r.kept[k] : k \in 1..n}
    /\ UNCHANGED tfEof

\* Read when the underlying Reader returns n == 0: early return.
TFReadEOF ==
    /\ ~tfEof
    /\ tfEof' = TRUE
    /\ UNCHANGED <<chunks, tfBuffer, screen, keptIdx, lastBuf, lastKept>>

FilterInit ==
    /\ chunks = << >>
    /\ tfBuffer = << >>
    /\ tfEof = FALSE
    /\ screen = << >>
    /\ keptIdx = << >>
    /\ lastBuf = << >>
    /\ lastKept = {}

(***************************************************************************)
(* Strings are sequences of one-character strings.                         *)
(***************************************************************************)
HasPrefix(s, prefix) ==
    Len(s) >= Len(prefix) /\ SubSeq(s, 1, Len(prefix)) = prefix

TrimPrefix(s, prefix) ==
    IF HasPrefix(s, prefix) THEN SubSeq(s, Len(prefix) + 1, Len(s)) ELSE s

PrefixSEND == <<"S", "E", "N", "D", ":">>
PrefixSENDPASS == <<"S", "E", "N", "D", "P", "A", "S", "S", ":">>
PrefixWAIT == <<"W", "A", "I", "T", ":">>
StrINTERACT == <<"I", "N", "T", "E", "R", "A", "C", "T">>
StrINTERACTIVE == StrINTERACT \o <<"I", "V", "E">>
Newline == <<"\n">>

CmdSsh == <<"s", "s", "h", " ", "h">>
CmdSend == PrefixSEND \o <<"x">>
CmdSendPass == PrefixSENDPASS \o <<"d", "b">>
CmdWait == PrefixWAIT \o <<"1">>

\* The command strings a host's command list is drawn from.
CmdWaitSuffix == <<"W", "A", "I", "T", ":", "2", "x">>
CommandPool ==
    {CmdSsh, CmdSend, CmdSendPass, CmdWait, CmdWaitSuffix, StrINTERACT}

\* Longest command list.
MaxCmds == 3

CommandLists == UNION {[1..k -> CommandPool] : k \in 0..MaxCmds}

(***************************************************************************)
(* ParseCommands                                                           *)
(***************************************************************************)
ParseOnePrefixInteract(cmd) ==
    IF HasPrefix(cmd, PrefixSEND)
    THEN [Type |-> "Send", Value |-> TrimPrefix(cmd, PrefixSEND)]
    ELSE IF HasPrefix(cmd, PrefixSENDPASS)
    THEN [Type |-> "SendPass", Value |-> TrimPrefix(cmd, PrefixSENDPASS)]
    ELSE IF HasPrefix(cmd, PrefixWAIT)
    THEN [Type |-> "Wait", Value |-> TrimPrefix(cmd, PrefixWAIT)]
    ELSE IF HasPrefix(cmd, StrINTERACT)
    THEN [Type |-> "Interact", Value |-> << >>]
    ELSE [Type |-> "Exec", Value |-> cmd]
ParseOne(cmd) ==
    IF HasPrefix(cmd, PrefixSEND)
    THEN [Type |-> "Send", Value |-> TrimPrefix(cmd, PrefixSEND)]
    ELSE IF HasPrefix(cmd, PrefixSENDPASS)
    THEN [Type |-> "SendPass", Value |-> TrimPrefix(cmd, PrefixSENDPASS)]
    ELSE IF HasPrefix(cmd, PrefixWAIT)
    THEN [Type |-> "Wait", Value |-> TrimPrefix(cmd, PrefixWAIT)]
    ELSE IF cmd = StrINTERACT \/ cmd = StrINTERACTIVE
    THEN [Type |-> "Interact", Value |-> << >>]
    ELSE [Type |-> "Exec", Value |-> cmd]

ParseCommands(cmds) == [k \in 1..Len(cmds) |-> ParseOne(cmds[k])]

(***************************************************************************)
(* Password store: PBKDF2 and AES-GCM are modelled symbolically.  A key    *)
(* is the pair of passphrase and salt it is derived from, a ciphertext     *)
(* names the key and nonce it was sealed with, and opening a ciphertext    *)
(* succeeds only with the sealing key.                                     *)
(***************************************************************************)
deriveMasterKeySaltOnly(masterPassword, salt) == <<"", salt>>
deriveMasterKey(masterPassword, salt) == <<masterPassword, salt>>

encrypt(plaintext, key, nonce) ==
    [nonce |-> nonce, key |-> key, plaintext |-> plaintext]

decryptUnauthenticated(ciphertext, key) ==
    [err |-> "nil", plaintext |-> ciphertext.plaintext]
decrypt(ciphertext, key) ==
    IF ciphertext.key = key
    THEN [err |-> "nil", plaintext |-> ciphertext.plaintext]
    ELSE [err |-> "message authentication failed", plaintext |-> << >>]

IdDb == <<"d", "b">>

\* json.Marshal of a string field: the quote and the backslash get a
\* backslash in front, "<" becomes its \u003c escape (HTML escaping is
\* on), every other printable character stands for itself.
RECURSIVE JSONString(_)
JSONString(s) ==
    IF s = << >> THEN << >>
    ELSE LET c == s[1]
             e == IF c = "\"" THEN <<"\\", "\"">>
                  ELSE IF c = "\\" THEN <<"\\", "\\">>
                  ELSE IF c = "<" THEN <<"\\", "u", "0", "0", "3", "c">>
                  ELSE <<c>>
         IN e \o JSONString(Tail(s))

\* json.Unmarshal of a string field: the escapes are undone.
JSONUnquoteRaw(t) == t
RECURSIVE JSONUnquote(_)
JSONUnquote(t) ==
    IF t = << >> THEN << >>
    ELSE IF t[1] = "\\" /\ Len(t) >= 6 /\ SubSeq(t, 2, 6) = <<"u", "0", "0", "3", "c">>
    THEN <<"<">> \o JSONUnquote(SubSeq(t, 7, Len(t)))
    ELSE IF t[1] = "\\" /\ Len(t) >= 2
    THEN <<t[2]>> \o JSONUnquote(SubSeq(t, 3, Len(t)))
    ELSE <<t[1]>> \o JSONUnquote(Tail(t))

\* base64.StdEncoding: the text form of a byte string, and its decoding,
\* which fails on anything that is not such a text.
EncodeToString(bytes) == [b64 |-> bytes]

DecodeString(text) ==
    IF DOMAIN text = {"b64"} THEN [err |-> "nil", bytes |-> text.b64]
    ELSE [err |-> "illegal base64 data", bytes |-> << >>]

\* json.MarshalIndent and json.Unmarshal of the entry array: element by
\* element, field by field, in the order of the array.  The Password
\* field holds base64 text, which JSON leaves as it is.
MarshalIndent(list) ==
    [k \in 1..Len(list) |->
       [ID |-> JSONString(list[k].ID),
        Description |-> JSONString(list[k].Description),
        Password |-> list[k].Password]]

Unmarshal(json) ==
    [k \in 1..Len(json) |->
       [ID |-> JSONUnquote(json[k].ID),
        Description |-> JSONUnquote(json[k].Description),
        Password |-> json[k].Password]]

\* The store file written by Save(masterPassword, salt) for the entries
\* given as a sequence of [ID, Description, Password] records: every
\* password sealed on its own, then the whole array sealed again.
StoreFile(masterPassword, salt, entries) ==
    LET key == deriveMasterKey(masterPassword, salt)
        entriesToSave ==
            [k \in 1..Len(entries) |->
               [ID |-> entries[k].ID,
                Description |-> entries[k].Description,
                Password |->
                    EncodeToString(encrypt(entries[k].Password, key, k))]]
    IN [kind |-> "file", salt |-> salt,
        data |-> encrypt(MarshalIndent(entriesToSave), key,
                         Len(entries) + 1)]

\* A store file whose write stopped after the salt: the ciphertext that
\* follows the salt is incomplete and opens under no key.
TornFile(salt) ==
    [kind |-> "file", salt |-> salt,
     data |-> [nonce |-> 0, key |-> <<"torn", salt>>, plaintext |-> << >>]]

\* Load: the error it returns and the entries map it leaves in the store
\* (entries is the map before the call).
RECURSIVE LoadEntries(_, _, _, _)
LoadEntries(list, k, key, acc) ==
    IF k > Len(list) THEN [err |-> "nil", entries |-> acc]
    ELSE LET b == DecodeString(list[k].Password)
             d == IF b.err = "nil" THEN decrypt(b.bytes, key) ELSE b
         IN IF b.err # "nil"
            THEN [err |-> "failed to decode password", entries |-> acc]
            ELSE IF d.err # "nil"
            THEN [err |-> "failed to decrypt password", entries |-> acc]
            ELSE LoadEntries(list, k + 1, key,
                   [id \in DOMAIN acc \cup {list[k].ID} |->
                      IF id = list[k].ID
                      THEN [Description |-> list[k].Description,
                            Password |-> d.plaintext]
                      ELSE acc[id]])

Load(file, masterPassword, entries) ==
    IF file.kind = "absent" THEN [err |-> "nil", entries |-> << >>]
    ELSE IF file.kind = "short"
    THEN [err |-> "invalid password store format", entries |-> entries]
    ELSE LET key == deriveMasterKey(masterPassword, file.salt)
             d == decrypt(file.data, key)
         IN IF d.err # "nil"
            THEN [err |-> "failed to decrypt (wrong password?)",
                  entries |-> entries]
            ELSE LoadEntries(Unmarshal(d.plaintext), 1, key, << >>)

\* StoreExists: os.Stat of the store file succeeds.
StoreExistsAlways(file) == TRUE
StoreExists(file) == file.kind # "absent"

\* Get: the password stored under id, or not found.
Get(entries, id) ==
    IF id \in DOMAIN entries
    THEN [err |-> "nil", password |-> entries[id].Password]
    ELSE [err |-> "not found", password |-> << >>]

\* Add: the error it returns and the entries map it leaves.
AddOverwriting(entries, id, description, password) ==
    [err |-> "nil",
     entries |-> [i \in DOMAIN entries \cup {id} |->
                    IF i = id
                    THEN [Description |-> description, Password |-> password]
                    ELSE entries[i]]]
Add(entries, id, description, password) ==
    IF id \in DOMAIN entries
    THEN [err |-> "already exists", entries |-> entries]
    ELSE [err |-> "nil",
          entries |-> [i \in DOMAIN entries \cup {id} |->
                         IF i = id
                         THEN [Description |-> description,
                               Password |-> password]
                         ELSE entries[i]]]

\* Remove: the error it returns and the entries map it leaves.
Remove(entries, id) ==
    IF id \notin DOMAIN entries
    THEN [err |-> "not found", entries |-> entries]
    ELSE [err |-> "nil",
          entries |-> [i \in DOMAIN entries \ {id} |-> entries[i]]]

\* The orders in which a range over the entries map can visit its keys.
Orders(entries) ==
    {o \in [1..Cardinality(DOMAIN entries) -> DOMAIN entries] :
       \A i, j \in DOMAIN o : i # j => o[i] # o[j]}

\* List: one new PasswordEntry per entry of the map, in the order the map
\* is ranged over; shared tells whether the returned pointer is the
\* store's own entry.
Mask == <<"*", "*", "*">>

ListShared(entries, order) ==
    [k \in 1..Len(order) |->
       [ID |-> order[k], Description |-> entries[order[k]].Description,
        Password |-> entries[order[k]].Password, shared |-> TRUE]]
List(entries, order) ==
    [k \in 1..Len(order) |->
       [ID |-> order[k], Description |-> entries[order[k]].Description,
        Password |-> Mask, shared |-> FALSE]]

\* Save(masterPassword, salt): the error it returns and the file it
\* leaves.  salt is NilSalt when the caller gives none; newSalt is what
\* rand.Read yields if it is asked; order is the order of the range over
\* the map; io is what the file system does: "ok", "mkdir" (MkdirAll
\* fails), "truncated" (WriteFile opened and truncated the file, then
\* failed before writing) or "torn" (WriteFile failed after the salt).
NilSalt == 0

IOOutcomes == {"ok", "mkdir", "truncated", "torn"}

SaveSaltFresh(file, salt, newSalt) ==
    IF salt # NilSalt THEN salt ELSE newSalt
SaveSalt(file, salt, newSalt) ==
    IF salt # NilSalt THEN salt
    ELSE IF StoreExists(file) /\ file.kind = "file" THEN file.salt
    ELSE newSalt

WriteFile(file, finalData, io) ==
    IF io = "ok" THEN finalData
    ELSE IF io = "truncated" THEN [kind |-> "short"]
    ELSE TornFile(finalData.salt)

Save(file, entries, masterPassword, salt, newSalt, order, io) ==
    LET s == SaveSalt(file, salt, newSalt)
        finalData ==
            StoreFile(masterPassword, s,
                      [k \in 1..Len(order) |->
                         [ID |-> order[k],
                          Description |-> entries[order[k]].Description,
                          Password |-> entries[order[k]].Password]])
    IN IF io = "mkdir"
       THEN [err |-> "failed to create directory", file |-> file]
       ELSE [err |-> IF io = "ok" THEN "nil"
                     ELSE "failed to write password store",
             file |-> WriteFile(file, finalData, io)]

\* Initialize(masterPassword): the error, the file and the entries map.
Initialize(file, masterPassword, newSalt, io) ==
    LET r == Save(file, << >>, masterPassword, newSalt, newSalt, << >>, io)
    IN [err |-> IF r.err = "nil" THEN "nil"
                ELSE "failed to save initial store",
        file |-> r.file, entries |-> << >>]

\* ChangeMasterPassword(oldPassword, newPassword): the error, the file and
\* the entries map; order is the order of Save's range over the map that
\* was read back from the file.
ChangeMasterPasswordClearingFirst(file, entries, oldPassword, newPassword, newSalt, order, io) ==
    IF file.kind = "file" /\ decrypt(file.data,
                                     deriveMasterKey(oldPassword, file.salt)).err # "nil"
    THEN [err |-> "incorrect old password", file |-> file, entries |-> << >>]
    ELSE [err |-> "failed to read password store",
          file |-> file, entries |-> entries]
ChangeMasterPassword(file, entries, oldPassword, newPassword, newSalt, order, io) ==
    IF file.kind = "absent"
    THEN [err |-> "failed to read password store",
          file |-> file, entries |-> entries]
    ELSE IF file.kind = "short"
    THEN [err |-> "invalid password store format",
          file |-> file, entries |-> entries]
    ELSE LET oldKey == deriveMasterKey(oldPassword, file.salt)
             d == decrypt(file.data, oldKey)
             l == LoadEntries(Unmarshal(d.plaintext), 1, oldKey, << >>)
             r == Save(file, l.entries, newPassword, newSalt, newSalt,
                       order, io)
         IN IF d.err # "nil"
            THEN [err |-> "incorrect old password",
                  file |-> file, entries |-> entries]
            ELSE IF l.err # "nil"
            THEN [err |-> l.err, file |-> file, entries |-> l.entries]
            ELSE [err |-> IF r.err = "nil" THEN "nil"
                          ELSE "failed to save with new password",
                  file |-> r.file, entries |-> l.entries]

Passphrases == {"P1", "P2"}

\* The store files the session can find on disk: none, one shorter than
\* the salt, and stores saved under "P1", empty or holding "db".
DiskFiles ==
    {[kind |-> "absent"], [kind |-> "short"], StoreFile("P1", 1, << >>),
     StoreFile("P1", 1, <<[ID |-> IdDb, Description |-> <<"d">>,
                           Password |-> <<"s", "1">>]>>)}

(***************************************************************************)
(* fmt.Sscanf(value, "%d", &seconds): leading blanks, an optional sign and *)
(* the leading digits; seconds stays 0 when no integer can be read.        *)
(***************************************************************************)
DigitValue(c) ==
    CASE c = "0" -> 0 [] c = "1" -> 1 [] c = "2" -> 2 [] c = "3" -> 3
      [] c = "4" -> 4 [] c = "5" -> 5 [] c = "6" -> 6 [] c = "7" -> 7
      [] c = "8" -> 8 [] c = "9" -> 9 [] OTHER -> -1

RECURSIVE ScanDigits(_, _, _)
ScanDigits(s, k, acc) ==
    IF k <= Len(s) /\ DigitValue(s[k]) >= 0
    THEN ScanDigits(s, k + 1, acc * 10 + DigitValue(s[k]))
    ELSE acc

RECURSIVE SkipSpace(_)
SkipSpace(s) ==
    IF s # << >> /\ s[1] \in {" ", "\t"} THEN SkipSpace(Tail(s)) ELSE s

SscanfInt(str) ==
    LET s == SkipSpace(str)
    IN IF s = << >> THEN 0
       ELSE IF s[1] \in {"-", "+"}
       THEN IF Len(s) >= 2 /\ DigitValue(s[2]) >= 0
            THEN (IF s[1] = "-" THEN -1 ELSE 1) * ScanDigits(s, 2, 0)
            ELSE 0
       ELSE ScanDigits(s, 1, 0)

(***************************************************************************)
(* ConnectInteractive                                                      *)
(***************************************************************************)
VARIABLES
    commands,       \* the command list passed to ConnectInteractive
    disk,           \* the password store file
    stdinTermios,   \* attributes of the terminal when the call is made
    mainPc,         \* position of the main flow
    result,         \* "none" while running, then "nil" or the error returned
    parsed,         \* ParseCommands(commands)
    passwordStore,  \* the *PasswordStore: nil, or its entries map
    masterPassword, \* the passphrase read at the prompt
    execCmd,        \* the seed command
    startIdx,       \* index (0-based) of the first directive after the seed
    seed,           \* the seed process: "none", "running", "exited"
    ptmx,           \* the PTY master: "none", "open", "closed"
    seedOut,        \* number of unread output chunks on the PTY (0 or 1)
    copied,         \* PTY output has been copied to stdout
    notified,       \* signal.Notify(ch, SIGWINCH) is in effect
    sigCh,          \* number of signals buffered in ch (capacity 1)
    ptySized,       \* pty.InheritSize has been applied to the open PTY
    termios,        \* attributes of the real terminal (fd of os.Stdin)
    oldState,       \* the *syscall.Termios returned by MakeRaw
    autoPc,         \* position of the automation goroutine
    autoIdx,        \* index (1-based) in parsed of its current directive
    autoWrites,     \* its Fprintf calls on ptmx: [idx, text, ok]
    waited,         \* its time.Sleep calls for Wait: [idx, seconds]
    stdinCopy,      \* io.Copy(ptmx, os.Stdin): "none", "running", "ended"
    userFwd,        \* keyboard input has been written to the PTY
    stdinOpen,      \* reads of os.Stdin do not return io.EOF yet
    winSize,        \* size of the real terminal's window
    ptySize         \* size last set on the PTY

mainVars == <<mainPc, result, parsed, passwordStore, masterPassword,
              execCmd, startIdx>>
inputVars == <<commands, disk, stdinTermios, stdinOpen, winSize>>
ptyVars == <<seed, ptmx, seedOut, copied>>
resizeVars == <<notified, sigCh, ptySized, ptySize>>
rawVars == <<termios, oldState>>
autoVars == <<autoPc, autoIdx, autoWrites, waited>>
copyVars == <<stdinCopy, userFwd>>
sessionVars == <<inputVars, mainVars, ptyVars, resizeVars, rawVars,
                 autoVars, copyVars>>

HasSendPass(ps) == \E k \in 1..Len(ps) : ps[k].Type = "SendPass"

\* Position (1-based) of the first Exec directive, 0 if there is none.
FirstExecLast(ps) ==
    IF \E k \in 1..Len(ps) : ps[k].Type = "Exec"
    THEN CHOOSE k \in 1..Len(ps) :
           /\ ps[k].Type = "Exec"
           /\ \A m \in (k + 1)..Len(ps) : ps[m].Type # "Exec"
    ELSE 0
FirstExec(ps) ==
    IF \E k \in 1..Len(ps) : ps[k].Type = "Exec"
    THEN CHOOSE k \in 1..Len(ps) :
           /\ ps[k].Type = "Exec"
           /\ \A m \in 1..(k - 1) : ps[m].Type # "Exec"
    ELSE 0

\* syscall.Termios: each flag word is the set of the flags that are on.
\* The character size is a two-bit field of Cflag (CSIZE); CS8 sets both.
CSIZE == {"CSIZE_LO", "CSIZE_HI"}
CS8 == {"CSIZE_LO", "CSIZE_HI"}
RawIflag == {"IGNBRK", "BRKINT", "PARMRK", "ISTRIP", "INLCR", "IGNCR",
             "ICRNL", "IXON"}
RawOflag == {"OPOST"}
RawLflag == {"ECHO", "ECHONL", "ICANON", "ISIG", "IEXTEN"}
RawCflag == CSIZE \cup {"PARENB"}

\* Attributes a terminal can have when the program starts: the usual cooked
\* mode, and a 7-bit line with parity and echo switched off.
CookedTermios ==
    [Iflag |-> {"BRKINT", "ICRNL", "IXON"}, Oflag |-> {"OPOST", "ONLCR"},
     Lflag |-> {"ECHO", "ICANON", "ISIG", "IEXTEN"},
     Cflag |-> {"CREAD"} \cup CS8]
SevenBitTermios ==
    [Iflag |-> {"ICRNL", "ISTRIP"}, Oflag |-> {"OPOST"},
     Lflag |-> {"ICANON", "ISIG"},
     Cflag |-> {"CREAD", "PARENB", "CSIZE_HI"}]
TermiosStates == {CookedTermios, SevenBitTermios}

ZeroTermios == [Iflag |-> {}, Oflag |-> {}, Lflag |-> {}, Cflag |-> {}]
NilState == [isNil |-> TRUE, t |-> ZeroTermios]

\* MakeRaw without a failing ioctl: the attributes it installs (raw) and the
\* copy it returns (oldState), taken before the flags are changed.
MakeRawAliased(t) ==
    LET raw == [Iflag |-> t.Iflag \ RawIflag,
                Oflag |-> t.Oflag \ RawOflag,
                Lflag |-> t.Lflag \ RawLflag,
                Cflag |-> (t.Cflag \ RawCflag) \cup CS8]
    IN [oldState |-> raw, raw |-> raw]
MakeRaw(t) ==
    [oldState |-> t,
     raw |-> [Iflag |-> t.Iflag \ RawIflag,
              Oflag |-> t.Oflag \ RawOflag,
              Lflag |-> t.Lflag \ RawLflag,
              Cflag |-> (t.Cflag \ RawCflag) \cup CS8]]

\* Restore(fd, termios): setTermios installs the saved attributes.
Restore(saved) == saved

\* The main flow returns err before any deferred call is registered.
ReturnEarly(err) ==
    /\ mainPc' = "returned"
    /\ result' = err

\* len(commands) == 0, ParseCommands, needsPasswordStore, NewPasswordStore.
CI_Parse ==
    /\ mainPc = "start"
    /\ IF Len(commands) = 0
       THEN /\ ReturnEarly("no commands specified")
            /\ UNCHANGED <<parsed, passwordStore>>
       ELSE /\ parsed' = ParseCommands(commands)
            /\ result' = result
            /\ IF HasSendPass(ParseCommands(commands))
               THEN /\ passwordStore' = [isNil |-> FALSE, entries |-> << >>]
                    /\ mainPc' = "storeExists"
               ELSE /\ passwordStore' = passwordStore
                    /\ mainPc' = "findSeed"
    /\ UNCHANGED <<masterPassword, execCmd, startIdx>>
    /\ UNCHANGED <<inputVars, ptyVars, resizeVars, rawVars, autoVars, copyVars>>

\* if !passwordStore.StoreExists() { return error }
CI_StoreExists ==
    /\ mainPc = "storeExists"
    /\ IF ~StoreExists(disk)
       THEN ReturnEarly("password store not initialized")
       ELSE mainPc' = "prompt" /\ result' = result
    /\ UNCHANGED <<parsed, passwordStore, masterPassword, execCmd, startIdx>>
    /\ UNCHANGED <<inputVars, ptyVars, resizeVars, rawVars, autoVars, copyVars>>

\* password.PromptMasterPassword: the user types pw, or reading fails.
CI_Prompt(pw) ==
    /\ mainPc = "prompt"
    /\ IF pw = "error"
       THEN ReturnEarly("failed to read master password")
            /\ masterPassword' = masterPassword
       ELSE mainPc' = "load" /\ result' = result /\ masterPassword' = pw
    /\ UNCHANGED <<parsed, passwordStore, execCmd, startIdx>>
    /\ UNCHANGED <<inputVars, ptyVars, resizeVars, rawVars, autoVars, copyVars>>

\* passwordStore.Load(masterPassword)
CI_Load ==
    /\ mainPc = "load"
    /\ LET r == Load(disk, masterPassword, passwordStore.entries)
       IN /\ passwordStore' = [isNil |-> FALSE, entries |-> r.entries]
          /\ IF r.err # "nil"
             THEN ReturnEarly("failed to load password store")
             ELSE mainPc' = "findSeed" /\ result' = result
    /\ UNCHANGED <<parsed, masterPassword, execCmd, startIdx>>
    /\ UNCHANGED <<inputVars, ptyVars, resizeVars, rawVars, autoVars, copyVars>>

\* Find the first exec command; return an error when execCmd == "".
CI_FindSeed ==
    /\ mainPc = "findSeed"
    /\ LET i == FirstExec(parsed)
           cmd == IF i = 0 THEN << >> ELSE parsed[i].Value
       IN /\ execCmd' = cmd
          /\ startIdx' = i
          /\ IF cmd = << >>
             THEN ReturnEarly("no executable command found")
             ELSE mainPc' = "ptyStart" /\ result' = result
    /\ UNCHANGED <<parsed, passwordStore, masterPassword>>
    /\ UNCHANGED <<inputVars, ptyVars, resizeVars, rawVars, autoVars, copyVars>>

\* ptmx, err := pty.Start(cmd); defer ptmx.Close()
CI_PtyStart(ok) ==
    /\ mainPc = "ptyStart"
    /\ IF ok
       THEN /\ seed' = "running" /\ ptmx' = "open"
            /\ mainPc' = "notify" /\ result' = result
       ELSE /\ ReturnEarly("failed to start pty")
            /\ UNCHANGED <<seed, ptmx>>
    /\ UNCHANGED <<parsed, passwordStore, masterPassword, execCmd, startIdx>>
    /\ UNCHANGED <<inputVars, seedOut, copied, resizeVars, rawVars,
                   autoVars, copyVars>>

\* ch := make(chan os.Signal, 1); signal.Notify(ch, SIGWINCH); go func(){...}
CI_Notify ==
    /\ mainPc = "notify"
    /\ mainPc' = "initialResize"
    /\ notified' = TRUE
    /\ UNCHANGED <<result, parsed, passwordStore, masterPassword, execCmd,
                   startIdx>>
    /\ UNCHANGED <<inputVars, ptyVars, sigCh, ptySized, ptySize, rawVars,
                   autoVars, copyVars>>

\* ch <- syscall.SIGWINCH: blocks while the buffer of ch is full.
CI_InitialResize ==
    /\ mainPc = "initialResize"
    /\ sigCh = 0
    /\ sigCh' = 1
    /\ mainPc' = "makeRaw"
    /\ UNCHANGED <<result, parsed, passwordStore, masterPassword, execCmd,
                   startIdx>>
    /\ UNCHANGED <<inputVars, ptyVars, notified, ptySized, ptySize, rawVars,
                   autoVars, copyVars>>

\* oldState, err := MakeRaw(os.Stdin.Fd()); defer Restore(...).  A failing
\* ioctl (ok = FALSE) leaves the terminal as it was; the deferred
\* ptmx.Close() runs.
CI_MakeRawAfterSpawn(ok) ==
    /\ mainPc = "makeRaw"
    /\ autoPc' = "sleep"
    /\ IF ok
       THEN /\ termios' = MakeRaw(termios).raw
            /\ oldState' = [isNil |-> FALSE, t |-> MakeRaw(termios).oldState]
            /\ mainPc' = "copyOut" /\ result' = result
            /\ ptmx' = ptmx
       ELSE /\ mainPc' = "returned"
            /\ result' = "failed to set raw mode"
            /\ ptmx' = "closed"
            /\ UNCHANGED rawVars
    /\ UNCHANGED <<parsed, passwordStore, masterPassword, execCmd, startIdx>>
    /\ UNCHANGED <<inputVars, seed, seedOut, copied, resizeVars, autoIdx,
                   autoWrites, waited, copyVars>>
CI_MakeRaw(ok) ==
    /\ mainPc = "makeRaw"
    /\ IF ok
       THEN /\ termios' = MakeRaw(termios).raw
            /\ oldState' = [isNil |-> FALSE, t |-> MakeRaw(termios).oldState]
            /\ mainPc' = "spawnAuto" /\ result' = result
            /\ ptmx' = ptmx
       ELSE /\ mainPc' = "returned"
            /\ result' = "failed to set raw mode"
            /\ ptmx' = "closed"
            /\ UNCHANGED rawVars
    /\ UNCHANGED <<parsed, passwordStore, masterPassword, execCmd, startIdx>>
    /\ UNCHANGED <<inputVars, seed, seedOut, copied, resizeVars, autoVars,
                   copyVars>>

\* filteredOutput := &TerminalFilter{...}; go func() { automation }()
CI_SpawnAuto ==
    /\ mainPc = "spawnAuto"
    /\ mainPc' = "copyOut"
    /\ autoPc' = "sleep"
    /\ UNCHANGED <<result, parsed, passwordStore, masterPassword, execCmd,
                   startIdx>>
    /\ UNCHANGED <<inputVars, ptyVars, resizeVars, rawVars, autoIdx,
                   autoWrites, waited, copyVars>>

\* io.Copy(os.Stdout, filteredOutput): one read that returns data.
CI_CopyOut ==
    /\ mainPc = "copyOut"
    /\ seedOut = 1
    /\ seedOut' = 0
    /\ copied' = TRUE
    /\ UNCHANGED <<mainVars, inputVars, seed, ptmx, resizeVars, rawVars,
                   autoVars, copyVars>>

\* io.Copy(os.Stdout, filteredOutput): the read fails once the seed is gone.
CI_CopyOutEnd ==
    /\ mainPc = "copyOut"
    /\ seedOut = 0
    /\ seed = "exited"
    /\ mainPc' = "wait"
    /\ UNCHANGED <<result, parsed, passwordStore, masterPassword, execCmd,
                   startIdx>>
    /\ UNCHANGED <<inputVars, ptyVars, resizeVars, rawVars, autoVars, copyVars>>

\* cmd.Wait(); return nil.  The deferred Restore and ptmx.Close() run.
CI_Wait ==
    /\ mainPc = "wait"
    /\ seed = "exited"
    /\ mainPc' = "returned"
    /\ result' = "nil"
    /\ termios' = Restore(oldState.t)
    /\ oldState' = oldState
    /\ ptmx' = "closed"
    /\ UNCHANGED <<parsed, passwordStore, masterPassword, execCmd, startIdx>>
    /\ UNCHANGED <<inputVars, seed, seedOut, copied, resizeVars, autoVars,
                   copyVars>>

\* The text an automation directive types into the PTY.
Payload(pc, pwd) ==
    IF pc.Type = "SendPass" THEN pwd \o Newline ELSE pc.Value \o Newline

\* fmt.Fprintf(ptmx, "%s\n", text): fails once ptmx is closed.
Fprintf(text) ==
    /\ autoWrites' = Append(autoWrites,
                            [idx |-> autoIdx, text |-> text,
                             ok |-> ptmx = "open"])
    /\ waited' = waited

\* The index of the directive the loop takes after the one at idx.
NextDirectiveSkipping(idx) == idx + 2
NextDirective(idx) == idx + 1

\* time.Sleep(500 * time.Millisecond), then the loop over parsed[startIdx:].
Auto_InitialSleep ==
    /\ autoPc = "sleep"
    /\ autoPc' = "dispatch"
    /\ autoIdx' = startIdx + 1
    /\ UNCHANGED <<mainVars, inputVars, ptyVars, resizeVars, rawVars,
                   autoWrites, waited, copyVars>>

AtDirective(type) ==
    /\ autoPc = "dispatch"
    /\ autoIdx <= Len(parsed)
    /\ parsed[autoIdx].Type = type

\* case CommandTypeSend
Auto_Send ==
    /\ AtDirective("Send")
    /\ Fprintf(Payload(parsed[autoIdx], << >>))
    /\ autoPc' = "settle"
    /\ UNCHANGED <<mainVars, inputVars, ptyVars, resizeVars, rawVars,
                   autoIdx, copyVars>>

\* case CommandTypeSendPass
Auto_SendPass ==
    /\ AtDirective("SendPass")
    /\ IF passwordStore.isNil
       THEN autoPc' = "aborted" /\ UNCHANGED <<autoWrites, waited>>
       ELSE LET g == Get(passwordStore.entries, parsed[autoIdx].Value)
            IN IF g.err # "nil"
               THEN autoPc' = "aborted" /\ UNCHANGED <<autoWrites, waited>>
               ELSE /\ Fprintf(Payload(parsed[autoIdx], g.password))
                    /\ autoPc' = "settle"
    /\ UNCHANGED <<mainVars, inputVars, ptyVars, resizeVars, rawVars,
                   autoIdx, copyVars>>

\* case CommandTypeWait
Auto_Wait ==
    /\ AtDirective("Wait")
    /\ LET seconds == SscanfInt(parsed[autoIdx].Value)
       IN IF seconds > 0
          THEN /\ autoPc' = "waiting" /\ autoIdx' = autoIdx
               /\ waited' = Append(waited,
                                   [idx |-> autoIdx, seconds |-> seconds])
          ELSE /\ autoPc' = "dispatch"
               /\ autoIdx' = NextDirective(autoIdx)
               /\ waited' = waited
    /\ UNCHANGED <<mainVars, inputVars, ptyVars, resizeVars, rawVars,
                   autoWrites, copyVars>>

\* case CommandTypeInteract: go io.Copy(ptmx, os.Stdin); return
Auto_InteractNoReturn ==
    /\ AtDirective("Interact")
    /\ stdinCopy' = "running"
    /\ autoPc' = "dispatch"
    /\ autoIdx' = autoIdx + 1
    /\ UNCHANGED <<mainVars, inputVars, ptyVars, resizeVars, rawVars,
                   autoWrites, waited, userFwd>>
Auto_Interact ==
    /\ AtDirective("Interact")
    /\ stdinCopy' = "running"
    /\ autoPc' = "done"
    /\ UNCHANGED <<mainVars, inputVars, ptyVars, resizeVars, rawVars,
                   autoIdx, autoWrites, waited, userFwd>>

\* case CommandTypeExec
Auto_ExecNoPause ==
    /\ AtDirective("Exec")
    /\ Fprintf(Payload(parsed[autoIdx], << >>))
    /\ autoPc' = "dispatch"
    /\ autoIdx' = NextDirective(autoIdx)
    /\ UNCHANGED <<mainVars, inputVars, ptyVars, resizeVars, rawVars,
                   copyVars>>
Auto_Exec ==
    /\ AtDirective("Exec")
    /\ Fprintf(Payload(parsed[autoIdx], << >>))
    /\ autoPc' = "settle"
    /\ UNCHANGED <<mainVars, inputVars, ptyVars, resizeVars, rawVars,
                   autoIdx, copyVars>>

\* time.Sleep after a write, or the sleep of a Wait, is over.
Auto_SleepDone ==
    /\ autoPc \in {"settle", "waiting"}
    /\ autoPc' = "dispatch"
    /\ autoIdx' = NextDirective(autoIdx)
    /\ UNCHANGED <<mainVars, inputVars, ptyVars, resizeVars, rawVars,
                   autoWrites, waited, copyVars>>

\* After the loop: io.Copy(ptmx, os.Stdin) in the automation goroutine.
Auto_HandOverMissing ==
    /\ autoPc = "dispatch"
    /\ autoIdx > Len(parsed)
    /\ autoPc' = "done"
    /\ UNCHANGED <<mainVars, inputVars, ptyVars, resizeVars, rawVars,
                   autoIdx, autoWrites, waited, copyVars>>
Auto_HandOver ==
    /\ autoPc = "dispatch"
    /\ autoIdx > Len(parsed)
    /\ autoPc' = "copy"
    /\ stdinCopy' = "running"
    /\ UNCHANGED <<mainVars, inputVars, ptyVars, resizeVars, rawVars,
                   autoIdx, autoWrites, waited, userFwd>>

AutoStep ==
    \/ Auto_InitialSleep \/ Auto_Send \/ Auto_SendPass \/ Auto_Wait
    \/ Auto_Interact \/ Auto_Exec \/ Auto_SleepDone \/ Auto_HandOver

\* io.Copy(ptmx, os.Stdin) reads a key from the terminal and writes it to
\* ptmx; the copy ends when the read returns io.EOF or the write fails.
Copy_Key ==
    /\ stdinCopy = "running"
    /\ IF stdinOpen /\ ptmx = "open"
       THEN /\ userFwd = FALSE
            /\ userFwd' = TRUE
            /\ UNCHANGED <<stdinCopy, autoPc>>
       ELSE /\ stdinCopy' = "ended"
            /\ autoPc' = IF autoPc = "copy" THEN "done" ELSE autoPc
            /\ userFwd' = userFwd
    /\ UNCHANGED <<mainVars, inputVars, ptyVars, resizeVars, rawVars,
                   autoIdx, autoWrites, waited>>

\* The resize goroutine: for range ch { pty.InheritSize(os.Stdin, ptmx) }.
\* InheritSize reads the window's size and sets it on the PTY; the second
\* call writes the PTY's size only, which nothing else writes, so the two
\* are one step.  On a closed PTY it fails and the error is ignored.
Resize_HandleOnce ==
    /\ notified
    /\ sigCh = 1
    /\ sigCh' = 0
    /\ ptySized' = (ptySized \/ ptmx = "open")
    /\ ptySize' = IF ptmx = "open" /\ ~ptySized THEN winSize ELSE ptySize
    /\ UNCHANGED <<mainVars, inputVars, ptyVars, notified, rawVars, autoVars,
                   copyVars>>
Resize_Handle ==
    /\ notified
    /\ sigCh = 1
    /\ sigCh' = 0
    /\ ptySized' = (ptySized \/ ptmx = "open")
    /\ ptySize' = IF ptmx = "open" THEN winSize ELSE ptySize
    /\ UNCHANGED <<mainVars, inputVars, ptyVars, notified, rawVars, autoVars,
                   copyVars>>

\* The sizes the window takes.
WinSizes == {"80x24", "132x43"}

\* The window gets the given size: the runtime puts SIGWINCH into ch unless
\* ch is full, in which case the signal is dropped.
Env_Winch(size) ==
    /\ notified
    /\ sigCh = 0 \/ size # winSize
    /\ winSize' = size
    /\ sigCh' = 1
    /\ UNCHANGED <<mainVars, commands, disk, stdinTermios, stdinOpen, ptyVars,
                   notified, ptySized, ptySize, rawVars, autoVars, copyVars>>

\* The real terminal's input ends: every later read returns io.EOF.
Env_StdinClose ==
    /\ stdinOpen
    /\ seed # "none"
    /\ stdinOpen' = FALSE
    /\ UNCHANGED <<mainVars, commands, disk, stdinTermios, winSize, ptyVars,
                   resizeVars, rawVars, autoVars, copyVars>>

\* The seed process writes to its terminal.
Env_SeedOutput ==
    /\ seed = "running"
    /\ seedOut = 0
    /\ seedOut' = 1
    /\ UNCHANGED <<mainVars, inputVars, seed, ptmx, copied, resizeVars,
                   rawVars, autoVars, copyVars>>

\* The seed process exits.
Env_SeedExit ==
    /\ seed = "running"
    /\ seed' = "exited"
    /\ UNCHANGED <<mainVars, inputVars, ptmx, seedOut, copied, resizeVars,
                   rawVars, autoVars, copyVars>>

\* The store file is read only for a list with a SENDPASS entry (ssh.go:
\* 330-353); the other lists are run with no store file.
SessionInit ==
    /\ commands \in CommandLists
    /\ disk \in IF HasSendPass(ParseCommands(commands))
                THEN DiskFiles ELSE {[kind |-> "absent"]}
    /\ stdinTermios \in TermiosStates
    /\ mainPc = "start"
    /\ result = "none"
    /\ parsed = << >>
    /\ passwordStore = [isNil |-> TRUE, entries |-> << >>]
    /\ masterPassword = ""
    /\ execCmd = << >>
    /\ startIdx = 0
    /\ seed = "none"
    /\ ptmx = "none"
    /\ seedOut = 0
    /\ copied = FALSE
    /\ notified = FALSE
    /\ sigCh = 0
    /\ ptySized = FALSE
    /\ termios = stdinTermios
    /\ oldState = NilState
    /\ autoPc = "none"
    /\ autoIdx = 0
    /\ autoWrites = << >>
    /\ waited = << >>
    /\ stdinCopy = "none"
    /\ userFwd = FALSE
    /\ stdinOpen = TRUE
    /\ winSize = "80x24"
    /\ ptySize = "0x0"

\* The session before ConnectInteractive is called with a given list.
SessionIdle ==
    /\ commands = << >>
    /\ disk = [kind |-> "absent"]
    /\ stdinTermios = CookedTermios
    /\ mainPc = "idle"
    /\ result = "none"
    /\ parsed = << >>
    /\ passwordStore = [isNil |-> TRUE, entries |-> << >>]
    /\ masterPassword = ""
    /\ execCmd = << >>
    /\ startIdx = 0
    /\ seed = "none"
    /\ ptmx = "none"
    /\ seedOut = 0
    /\ copied = FALSE
    /\ notified = FALSE
    /\ sigCh = 0
    /\ ptySized = FALSE
    /\ termios = stdinTermios
    /\ oldState = NilState
    /\ autoPc = "none"
    /\ autoIdx = 0
    /\ autoWrites = << >>
    /\ waited = << >>
    /\ stdinCopy = "none"
    /\ userFwd = FALSE
    /\ stdinOpen = TRUE
    /\ winSize = "80x24"
    /\ ptySize = "0x0"

MainStep ==
    \/ CI_Parse \/ CI_StoreExists
    \/ \E pw \in Passphrases \cup {"error"} : CI_Prompt(pw)
    \/ CI_Load \/ CI_FindSeed
    \/ \E ok \in BOOLEAN : CI_PtyStart(ok)
    \/ CI_Notify \/ CI_InitialResize
    \/ \E ok \in BOOLEAN : CI_MakeRaw(ok)
    \/ CI_SpawnAuto \/ CI_CopyOut \/ CI_CopyOutEnd \/ CI_Wait

(***************************************************************************)
(* package ssh, the command-chain compiler: ConnectWithCommands builds one *)
(* shell command out of a command list.  Strings are sequences of          *)
(* characters, as above; positions are 1-based and 0 stands for Go's -1.   *)
(***************************************************************************)
MaxList == 3

StrSsh == <<"s", "s", "h">>
StrSshSp == <<"s", "s", "h", " ">>
StrSshTT == <<"s", "s", "h", " ", "-", "t", "t", " ">>
StrDashTT == <<" ", "-", "t", "t">>
StrDashT == <<" ", "-", "t", " ">>
StrAndAnd == <<" ", "&", "&", " ">>
StrSemi == <<";", " ">>
StrExec == <<"e", "x", "e", "c", " ">>
StrQuote == <<"'">>
StrEscapedQuote == <<"'", "\"", "'", "\"", "'">>
StrSpace == <<" ">>

\* strings.Index(s, substr)
Index(s, substr) ==
    LET ks == {k \in 1..(Len(s) - Len(substr) + 1) :
                 SubSeq(s, k, k + Len(substr) - 1) = substr}
    IN IF ks = {} THEN 0 ELSE CHOOSE k \in ks : \A j \in ks : k <= j

\* strings.Contains(s, substr)
Contains(s, substr) == Index(s, substr) # 0

\* strings.Join(elems, sep)
RECURSIVE Join(_, _)
Join(elems, sep) ==
    IF Len(elems) = 0 THEN << >>
    ELSE IF Len(elems) = 1 THEN elems[1]
    ELSE elems[1] \o sep \o Join(Tail(elems), sep)

\* strings.Replace(s, old, new, 1)
ReplaceFirst(s, old, new) ==
    LET i == Index(s, old)
    IN IF i = 0 THEN s
       ELSE SubSeq(s, 1, i - 1) \o new \o SubSeq(s, i + Len(old), Len(s))

\* strings.ReplaceAll(s, old, new), for a non-empty old
RECURSIVE ReplaceAll(_, _, _)
ReplaceAll(s, old, new) ==
    LET i == Index(s, old)
    IN IF i = 0 THEN s
       ELSE SubSeq(s, 1, i - 1) \o new
            \o ReplaceAll(SubSeq(s, i + Len(old), Len(s)), old, new)

\* The loop over commands: position of the first entry that contains "ssh".
firstSSHIndex(cmds) ==
    LET ks == {k \in 1..Len(cmds) : Contains(cmds[k], StrSsh)}
    IN IF ks = {} THEN 0 ELSE CHOOSE k \in ks : \A j \in ks : k <= j

\* What the loop over remoteCommands writes for entry i.
RemotePiece(remoteCommands, i) ==
    (IF i > 1 THEN StrSemi ELSE << >>)
    \o (IF i = Len(remoteCommands) /\ Contains(remoteCommands[i], StrSsh)
        THEN StrExec ELSE << >>)
    \o remoteCommands[i]

\* remoteScript.String()
RemoteScript(remoteCommands) ==
    Flatten([i \in 1..Len(remoteCommands) |->
               RemotePiece(remoteCommands, i)])

\* sshCommand after the "-tt" check.
EnsureTT(firstSSH) ==
    IF ~Contains(firstSSH, StrDashTT) /\ ~Contains(firstSSH, StrDashT)
    THEN ReplaceFirst(firstSSH, StrSshSp, StrSshTT)
    ELSE firstSSH

\* escapedScript
EscapeBackslash(remoteScript) ==
    ReplaceAll(remoteScript, StrQuote, <<"\\", "'">>)
EscapeQuotes(remoteScript) ==
    ReplaceAll(remoteScript, StrQuote, StrEscapedQuote)

\* The multi-hop branch of ConnectWithCommands (ssh.go:140-181), for a
\* list whose first "ssh" entry, at position i, is not the last one.
MultiHopDroppingPre(cmds, i) ==
    EnsureTT(cmds[i]) \o StrSpace \o StrQuote
    \o EscapeQuotes(RemoteScript(SubSeq(cmds, i + 1, Len(cmds))))
    \o StrQuote
MultiHop(cmds, i) ==
    LET preCommands == IF i > 1 THEN SubSeq(cmds, 1, i - 1) ELSE << >>
        remoteCommands == SubSeq(cmds, i + 1, Len(cmds))
        sshCommand == EnsureTT(cmds[i])
        escapedScript == EscapeQuotes(RemoteScript(remoteCommands))
        finalCommand ==
            sshCommand \o StrSpace \o StrQuote \o escapedScript \o StrQuote
    IN IF Len(preCommands) > 0
       THEN Join(preCommands, StrAndAnd) \o StrAndAnd \o finalCommand
       ELSE finalCommand

\* ConnectWithCommands up to its call of ConnectWithExec: the branch taken,
\* the command it passes on, and whether "Executing: ..." is printed first.
ConnectWithCommandsKeepingPre(cmds) ==
    LET i == firstSSHIndex(cmds)
    IN IF Len(cmds) = 0
       THEN [path |-> "empty", command |-> << >>, echo |-> FALSE]
       ELSE IF Len(cmds) = 1
       THEN [path |-> "single", command |-> cmds[1], echo |-> FALSE]
       ELSE IF i = 0
       THEN [path |-> "chain", command |-> Join(cmds, StrAndAnd),
             echo |-> FALSE]
       ELSE IF i = Len(cmds)
       THEN [path |-> "sshLast", command |-> Join(cmds, StrAndAnd),
             echo |-> FALSE]
       ELSE [path |-> "multiHop", command |-> MultiHop(cmds, i),
             echo |-> TRUE]
ConnectWithCommands(cmds) ==
    LET i == firstSSHIndex(cmds)
    IN IF Len(cmds) = 0
       THEN [path |-> "empty", command |-> << >>, echo |-> FALSE]
       ELSE IF Len(cmds) = 1
       THEN [path |-> "single", command |-> cmds[1], echo |-> FALSE]
       ELSE IF i = 0
       THEN [path |-> "chain", command |-> Join(cmds, StrAndAnd),
             echo |-> FALSE]
       ELSE IF i = Len(cmds)
       THEN [path |-> "sshLast", command |-> cmds[i], echo |-> FALSE]
       ELSE [path |-> "multiHop", command |-> MultiHop(cmds, i),
             echo |-> TRUE]

\* ConnectWithCommandsSubprocess up to its call of Connect (ssh.go:191-266).
ConnectWithCommandsSubprocess(cmds) ==
    LET firstIdx == firstSSHIndex(cmds)
        preCommands ==
            IF firstIdx > 1 THEN SubSeq(cmds, 1, firstIdx - 1) ELSE << >>
        remoteCommands == SubSeq(cmds, firstIdx + 1, Len(cmds))
        sshCommand ==
            IF ~Contains(cmds[firstIdx], StrDashTT)
               /\ ~Contains(cmds[firstIdx], StrDashT)
            THEN ReplaceFirst(cmds[firstIdx], StrSshSp, StrSshTT)
            ELSE cmds[firstIdx]
        escapedScript ==
            ReplaceAll(RemoteScript(remoteCommands), StrQuote, StrEscapedQuote)
        finalCommand ==
            sshCommand \o StrSpace \o StrQuote \o escapedScript \o StrQuote
    IN IF Len(cmds) = 0
       THEN [path |-> "empty", command |-> << >>, echo |-> FALSE]
       ELSE IF Len(cmds) = 1
       THEN [path |-> "single", command |-> cmds[1], echo |-> FALSE]
       ELSE IF firstIdx = 0
       THEN [path |-> "chain", command |-> Join(cmds, StrAndAnd),
             echo |-> FALSE]
       ELSE IF firstIdx = Len(cmds)
       THEN [path |-> "sshLast", command |-> cmds[firstIdx], echo |-> FALSE]
       ELSE [path |-> "multiHop",
             command |-> IF Len(preCommands) > 0
                         THEN Join(preCommands, StrAndAnd) \o StrAndAnd
                              \o finalCommand
                         ELSE finalCommand,
             echo |-> TRUE]

(***************************************************************************)
(* package main: main() validates the command list of the selected host    *)
(* and hands it to one of the engines.                                     *)
(***************************************************************************)
VARIABLES
    hostCommands,   \* selectedHost.GetCommands()
    frontPc,        \* position in main / ConnectWithCommands
    route,          \* the branch main took: "interactive", "single", "chain"
    ciParsed,       \* ParseCommands(commands) inside ConnectInteractive
    finalCommand,   \* the command ConnectWithCommands passes on
    stdout,         \* the commands echoed as "Executing: ..."
    stderr,         \* the diagnostics written to os.Stderr
    shellCalls,     \* calls of ConnectWithExec / Connect: [via, command, ok]
    exitCode        \* "none", "0", "1", or "exec" (process replaced)

frontVars == <<hostCommands, frontPc, route, ciParsed, finalCommand, stdout,
               stderr, shellCalls, exitCode>>

PrefixEXPECT == <<"E", "X", "P", "E", "C", "T", ":">>
CmdSshT == <<"s", "s", "h", " ", "-", "t", " ", "b">>
CmdLs == <<"l", "s">>
CmdQuoted == <<"e", " ", "'", "\\", "\"", "$", "'">>
CmdDotSsh == <<"c", "d", " ", ".", "s", "s", "h">>
CmdExpect == <<"E", "X", "P", "E", "C", "T", ":", "x">>
CmdSendNoColon == <<"S", "E", "N", "D">>
CmdInteractSp == <<"I", "N", "T", "E", "R", "A", "C", "T", " ">>

\* The entries a host's command list is drawn from.
FrontPool ==
    {CmdSsh, CmdSshT, CmdLs, CmdQuoted, CmdDotSsh, CmdSend, CmdSendPass,
     CmdWait, StrINTERACT, StrINTERACTIVE, CmdExpect, CmdSendNoColon,
     CmdInteractSp, << >>}
FrontLists == UNION {[1..k -> FrontPool] : k \in 0..MaxList}

\* ValidateCommand: the error it returns, "nil" for none.
ValidateCommand(command) ==
    IF command = << >> THEN "command cannot be empty"
    ELSE IF ~Contains(command, StrSsh) THEN "command must contain 'ssh'"
    ELSE "nil"

\* ValidateCommands
ValidateCommands(cmds) ==
    IF Len(cmds) = 0 THEN "no commands specified"
    ELSE IF \E k \in 1..Len(cmds) : cmds[k] = << >>
    THEN "empty command in command list"
    ELSE IF \A k \in 1..Len(cmds) : ~Contains(cmds[k], StrSsh)
    THEN "at least one command must contain 'ssh'"
    ELSE "nil"

\* The hasInteractive loop of main.
hasInteractive(cmds) ==
    \E k \in 1..Len(cmds) :
        \/ HasPrefix(cmds[k], PrefixSEND)
        \/ HasPrefix(cmds[k], PrefixSENDPASS)
        \/ HasPrefix(cmds[k], PrefixWAIT)
        \/ HasPrefix(cmds[k], PrefixEXPECT)
        \/ cmds[k] = StrINTERACT
        \/ cmds[k] = StrINTERACTIVE

Exit(code, msgs) ==
    /\ frontPc' = "exited"
    /\ exitCode' = code
    /\ stderr' = stderr \o msgs

\* commands := selectedHost.GetCommands(); the length check and validation.
Main_Validate ==
    /\ frontPc = "main"
    /\ LET err == IF Len(hostCommands) = 1
                  THEN ValidateCommand(hostCommands[1])
                  ELSE ValidateCommands(hostCommands)
       IN IF Len(hostCommands) = 0
          THEN Exit("1", <<"No command configured for host">>)
          ELSE IF err # "nil"
          THEN Exit("1", <<err>>)
          ELSE /\ frontPc' = "validated"
               /\ UNCHANGED <<exitCode, stderr>>
    /\ UNCHANGED <<hostCommands, route, ciParsed, finalCommand, stdout,
                   shellCalls>>

\* The hasInteractive loop and the choice of the engine.
Main_Dispatch ==
    /\ frontPc = "validated"
    /\ IF hasInteractive(hostCommands)
       THEN route' = "interactive" /\ frontPc' = "interactive"
       ELSE IF Len(hostCommands) = 1
       THEN route' = "single" /\ frontPc' = "single"
       ELSE route' = "chain" /\ frontPc' = "cwc"
    /\ UNCHANGED <<hostCommands, ciParsed, finalCommand, stdout, stderr,
                   shellCalls, exitCode>>

\* ssh.ConnectInteractive(commands): it parses the list first; ok tells
\* whether it returned nil.
Main_ConnectInteractive(ok) ==
    /\ frontPc = "interactive"
    /\ ciParsed' = ParseCommands(hostCommands)
    /\ IF ok THEN Exit("0", << >>)
       ELSE Exit("1", <<"Error in interactive session">>)
    /\ UNCHANGED <<hostCommands, route, finalCommand, stdout, shellCalls>>

\* ssh.ConnectWithExec(commands[0]), and ssh.Connect(commands[0]) when
\* syscall.Exec failed.
Main_Single(execOk, runOk) ==
    /\ frontPc = "single"
    /\ LET c == hostCommands[1]
       IN IF execOk
          THEN /\ shellCalls' = Append(shellCalls,
                     [via |-> "exec", command |-> c, ok |-> TRUE])
               /\ frontPc' = "exited" /\ exitCode' = "exec"
               /\ stderr' = stderr
          ELSE /\ shellCalls' = shellCalls \o
                     <<[via |-> "exec", command |-> c, ok |-> FALSE],
                       [via |-> "run", command |-> c, ok |-> runOk]>>
               /\ IF runOk
                  THEN Exit("0", <<"Warning: exec failed">>)
                  ELSE Exit("1", <<"Warning: exec failed",
                                   "Error connecting to host">>)
    /\ UNCHANGED <<hostCommands, route, ciParsed, finalCommand, stdout>>

\* ConnectWithCommands up to the call of ConnectWithExec, the echo included.
CWC_Compile ==
    /\ frontPc = "cwc"
    /\ LET plan == ConnectWithCommands(hostCommands)
       IN /\ finalCommand' = plan.command
          /\ stdout' = IF plan.echo THEN Append(stdout, plan.command)
                       ELSE stdout
          /\ frontPc' = IF plan.path = "empty" THEN "cwcFailed" ELSE "cwcExec"
    /\ UNCHANGED <<hostCommands, route, ciParsed, stderr, shellCalls,
                   exitCode>>

\* ConnectWithExec(finalCommand): an empty command is refused; syscall.Exec
\* replaces the process (execOk) or fails.
CWC_Exec(execOk) ==
    /\ frontPc = "cwcExec"
    /\ IF finalCommand = << >>
       THEN /\ frontPc' = "cwcFailed"
            /\ UNCHANGED <<shellCalls, exitCode>>
       ELSE /\ shellCalls' = Append(shellCalls,
                  [via |-> "exec", command |-> finalCommand, ok |-> execOk])
            /\ IF execOk
               THEN frontPc' = "exited" /\ exitCode' = "exec"
               ELSE frontPc' = "cwcFailed" /\ exitCode' = exitCode
    /\ UNCHANGED <<hostCommands, route, ciParsed, finalCommand, stdout,
                   stderr>>

\* main after ConnectWithCommands returned an error: the warning, then
\* ConnectWithCommandsSubprocess, which compiles and echoes again and runs
\* the command with Connect.
Main_Fallback(runOk) ==
    /\ frontPc = "cwcFailed"
    /\ route = "chain"
    /\ LET plan == ConnectWithCommandsSubprocess(hostCommands)
           started == plan.path # "empty" /\ plan.command # << >>
       IN /\ stdout' = IF plan.echo THEN Append(stdout, plan.command)
                       ELSE stdout
          /\ shellCalls' =
                IF started
                THEN Append(shellCalls,
                       [via |-> "run", command |-> plan.command,
                        ok |-> runOk])
                ELSE shellCalls
          /\ IF started /\ runOk
             THEN Exit("0", <<"Warning: exec failed">>)
             ELSE Exit("1", <<"Warning: exec failed",
                              "Error executing commands">>)
    /\ UNCHANGED <<hostCommands, route, ciParsed, finalCommand>>

\* main has the command list of the selected host.
FrontInit ==
    /\ hostCommands \in FrontLists
    /\ frontPc = "main"
    /\ route = "none"
    /\ ciParsed = << >>
    /\ finalCommand = << >>
    /\ stdout = << >>
    /\ stderr = << >>
    /\ shellCalls = << >>
    /\ exitCode = "none"

\* ConnectWithCommands is called with a list of its own.
CompileInit ==
    /\ hostCommands \in FrontLists
    /\ frontPc = "cwc"
    /\ route = "none"
    /\ ciParsed = << >>
    /\ finalCommand = << >>
    /\ stdout = << >>
    /\ stderr = << >>
    /\ shellCalls = << >>
    /\ exitCode = "none"

\* ParseCommands is called with a list of its own.
Parse_Call ==
    /\ frontPc = "parse"
    /\ ciParsed' = ParseCommands(hostCommands)
    /\ frontPc' = "parsed"
    /\ UNCHANGED <<hostCommands, route, finalCommand, stdout, stderr,
                   shellCalls, exitCode>>

ParseInit ==
    /\ hostCommands \in FrontLists
    /\ frontPc = "parse"
    /\ route = "none"
    /\ ciParsed = << >>
    /\ finalCommand = << >>
    /\ stdout = << >>
    /\ stderr = << >>
    /\ shellCalls = << >>
    /\ exitCode = "none"

\* No host has been selected.
FrontIdle ==
    /\ hostCommands = << >>
    /\ frontPc = "idle"
    /\ route = "none"
    /\ ciParsed = << >>
    /\ finalCommand = << >>
    /\ stdout = << >>
    /\ stderr = << >>
    /\ shellCalls = << >>
    /\ exitCode = "none"

(***************************************************************************)
(* The password store as an object: the store file, the PasswordStore ps   *)
(* the caller works on, and a new PasswordStore (fresh) that another run   *)
(* of the program loads the file into.  On top of it the password manager  *)
(* (package ui), whose key handlers call the store.                        *)
(***************************************************************************)
VARIABLES
    fileOnDisk,   \* the store file at ps.filePath
    psEntries,    \* ps.entries: id -> [Description, Password]
    nextSalt,     \* the salt rand.Read yields next
    saved,        \* history: the last write of the file that completed
    fresh,        \* the new instance and the Load it was given
    lastOp,       \* history: the last call and what it returned
    mode,         \* passwordManagerModel.mode, "off" while it is not running
    masterPwd,    \* passwordManagerModel.masterPwd
    mEntries      \* passwordManagerModel.entries

uiVars == <<mode, masterPwd, mEntries>>

storeVars ==
    <<fileOnDisk, psEntries, nextSalt, saved, fresh, lastOp, uiVars>>

MaxSalt == 2

IdQuoted == <<"\"", "<">>

StoreIds == {IdDb, IdQuoted}

\* The description and secret a caller adds under an id.
EntryPool ==
    {[Description |-> <<"d">>, Password |-> <<"s", "1">>],
     [Description |-> <<"\\">>, Password |-> <<"s", "2">>]}

NoOp ==
    [op |-> "none", id |-> << >>, pw |-> "", err |-> "nil",
     password |-> << >>, list |-> << >>]

Op(op, id, pw, err) == [NoOp EXCEPT !.op = op, !.id = id, !.pw = pw, !.err = err]

NoFresh == [loaded |-> FALSE, pw |-> "", err |-> "nil", entries |-> << >>]

NotSaved ==
    [ok |-> FALSE, pw |-> "", entries |-> << >>,
     changedFrom |-> "", held |-> << >>]

\* The history of the file after a call that ran Save and returned r:
\* a completed write replaces it, a write that failed after touching the
\* file voids it, a call that left the file alone leaves it.  A write by
\* ChangeMasterPassword also keeps the old passphrase and the entries the
\* file held under it.
Written(r, pw, entries, changedFrom) ==
    IF r.err = "nil"
    THEN [ok |-> TRUE, pw |-> pw, entries |-> entries,
          changedFrom |-> changedFrom,
          held |-> IF changedFrom = "" THEN << >> ELSE saved.entries]
    ELSE IF r.file = fileOnDisk THEN saved
    ELSE NotSaved

\* Save(masterPassword, nil) asks rand.Read for a salt when the file has
\* none to reuse.
DrawsSalt == fileOnDisk.kind # "file"

Store_Initialize(pw, io) ==
    /\ nextSalt <= MaxSalt
    /\ LET r == Initialize(fileOnDisk, pw, nextSalt, io)
       IN /\ fileOnDisk' = r.file
          /\ psEntries' = r.entries
          /\ saved' = Written(r, pw, << >>, "")
          /\ lastOp' = Op("Initialize", << >>, pw, r.err)
    /\ nextSalt' = nextSalt + 1
    /\ fresh' = NoFresh
    /\ UNCHANGED uiVars

Store_Load(pw) ==
    /\ LET r == Load(fileOnDisk, pw, psEntries)
       IN /\ psEntries' = r.entries
          /\ lastOp' = Op("Load", << >>, pw, r.err)
    /\ fresh' = NoFresh
    /\ UNCHANGED <<fileOnDisk, nextSalt, saved, uiVars>>

Store_Save(pw, order, io) ==
    /\ DrawsSalt => nextSalt <= MaxSalt
    /\ LET r == Save(fileOnDisk, psEntries, pw, NilSalt, nextSalt, order, io)
       IN /\ fileOnDisk' = r.file
          /\ saved' = Written(r, pw, psEntries, "")
          /\ lastOp' = Op("Save", << >>, pw, r.err)
    /\ nextSalt' = IF DrawsSalt THEN nextSalt + 1 ELSE nextSalt
    /\ fresh' = NoFresh
    /\ UNCHANGED <<psEntries, uiVars>>

Store_Add(id, e) ==
    /\ LET r == Add(psEntries, id, e.Description, e.Password)
       IN /\ psEntries' = r.entries
          /\ lastOp' = Op("Add", id, "", r.err)
    /\ fresh' = NoFresh
    /\ UNCHANGED <<fileOnDisk, nextSalt, saved, uiVars>>

Store_Remove(id) ==
    /\ LET r == Remove(psEntries, id)
       IN /\ psEntries' = r.entries
          /\ lastOp' = Op("Remove", id, "", r.err)
    /\ fresh' = NoFresh
    /\ UNCHANGED <<fileOnDisk, nextSalt, saved, uiVars>>

Store_Get(id) ==
    /\ LET r == Get(psEntries, id)
       IN lastOp' = [Op("Get", id, "", r.err) EXCEPT !.password = r.password]
    /\ fresh' = NoFresh
    /\ UNCHANGED <<fileOnDisk, psEntries, nextSalt, saved, uiVars>>

Store_List(order) ==
    /\ lastOp' = [Op("List", << >>, "", "nil") EXCEPT
                    !.list = List(psEntries, order)]
    /\ fresh' = NoFresh
    /\ UNCHANGED <<fileOnDisk, psEntries, nextSalt, saved, uiVars>>

\* The caller writes description and password of e through the k-th
\* pointer List returned; a pointer shared with the store writes the
\* store's entry.
Caller_Modify(k, e) ==
    /\ lastOp.op = "List"
    /\ k \in DOMAIN lastOp.list
    /\ lastOp.list[k].Password # e.Password
    /\ lastOp' = [lastOp EXCEPT !.op = "Modify",
                    !.list[k].Description = e.Description,
                    !.list[k].Password = e.Password]
    /\ psEntries' = IF lastOp.list[k].shared
                    THEN [psEntries EXCEPT ![lastOp.list[k].ID] = e]
                    ELSE psEntries
    /\ UNCHANGED <<fileOnDisk, nextSalt, saved, fresh, uiVars>>

Store_ChangeMasterPassword(oldPassword, newPassword, order, io) ==
    /\ nextSalt <= MaxSalt
    /\ LET r == ChangeMasterPassword(fileOnDisk, psEntries, oldPassword,
                                     newPassword, nextSalt, order, io)
           saving == r.err \in {"nil", "failed to save with new password"}
       IN /\ fileOnDisk' = r.file
          /\ psEntries' = r.entries
          /\ saved' = Written(r, newPassword, r.entries, oldPassword)
          /\ lastOp' = Op("ChangeMasterPassword", << >>, oldPassword, r.err)
          /\ nextSalt' = IF saving THEN nextSalt + 1 ELSE nextSalt
    /\ fresh' = NoFresh
    /\ UNCHANGED uiVars

\* A new PasswordStore is made and told to Load.
Fresh_Load(pw) ==
    /\ LET r == Load(fileOnDisk, pw, << >>)
       IN /\ fresh' = [loaded |-> TRUE, pw |-> pw, err |-> r.err,
                       entries |-> r.entries]
          /\ lastOp' = Op("FreshLoad", << >>, pw, r.err)
    /\ UNCHANGED <<fileOnDisk, psEntries, nextSalt, saved, uiVars>>

Fresh_Get(id) ==
    /\ fresh.loaded
    /\ LET r == Get(fresh.entries, id)
       IN lastOp' = [Op("FreshGet", id, fresh.pw, r.err) EXCEPT
                       !.password = r.password]
    /\ UNCHANGED <<fileOnDisk, psEntries, nextSalt, saved, fresh, uiVars>>

\* The entries map ChangeMasterPassword reads back from the file.
ReadBack(pw) == Load(fileOnDisk, pw, << >>).entries

(***************************************************************************)
(* The password manager: runPasswordManager (package main) unlocks or      *)
(* creates the store and runs the screen model of package ui, whose        *)
(* handlers for the enter key call the store.  Typing into the input       *)
(* fields is folded into the handler: its inputs are the field contents.   *)
(***************************************************************************)
\* "p" stands for a passphrase shorter than 8 characters, the others for
\* passphrases of at least 8.
MinMasterLen == 8

TypedPassphrases == Passphrases \cup {"p"}

PassphraseLen(pw) == IF pw = "p" THEN 1 ELSE MinMasterLen

\* runPasswordManager: with no store file, the passphrase is asked twice
\* and the store initialized; with one, the store is loaded.  Every
\* failure exits the process.
PM_Start(pw, confirm, io) ==
    /\ mode = "off"
    /\ ~StoreExists(fileOnDisk) => nextSalt <= MaxSalt
    /\ LET creating == ~StoreExists(fileOnDisk)
           refused == creating /\ (PassphraseLen(pw) < MinMasterLen \/ pw # confirm)
           i == Initialize(fileOnDisk, pw, nextSalt, io)
           l == Load(fileOnDisk, pw, << >>)
           r == IF refused THEN [err |-> "exit 1", file |-> fileOnDisk,
                                 entries |-> << >>]
                ELSE IF creating THEN i
                ELSE [err |-> l.err, file |-> fileOnDisk, entries |-> l.entries]
       IN /\ fileOnDisk' = r.file
          /\ saved' = IF creating /\ ~refused THEN Written(r, pw, << >>, "")
                      ELSE saved
          /\ nextSalt' = IF creating /\ ~refused THEN nextSalt + 1 ELSE nextSalt
          /\ lastOp' = Op("start", << >>, "", r.err)
          /\ IF r.err = "nil"
             THEN /\ mode' = "menu"
                  /\ masterPwd' = pw
                  /\ psEntries' = r.entries
                  /\ \E order \in Orders(r.entries) :
                       mEntries' = List(r.entries, order)
             ELSE UNCHANGED <<mode, masterPwd, psEntries, mEntries>>
    /\ fresh' = NoFresh

\* updateMenu, enter on "Add password", "Remove password" or "Change
\* master password"; the message of the last operation is cleared.
PM_Menu(choice, order) ==
    /\ mode = "menu"
    /\ mode' = choice
    /\ mEntries' = IF choice = "remove" THEN List(psEntries, order)
                   ELSE mEntries
    /\ lastOp' = NoOp
    /\ UNCHANGED <<fileOnDisk, psEntries, nextSalt, saved, fresh, masterPwd>>

\* esc in a mode other than the menu; the message is cleared.
PM_Esc ==
    /\ mode \in {"add", "remove", "change-master"}
    /\ mode' = "menu"
    /\ lastOp' = NoOp
    /\ UNCHANGED <<fileOnDisk, psEntries, nextSalt, saved, fresh, masterPwd,
                   mEntries>>

\* ctrl+c, or q in the menu: the program ends and its store with it.
PM_Quit ==
    /\ mode # "off"
    /\ mode' = "off"
    /\ psEntries' = << >>
    /\ masterPwd' = ""
    /\ mEntries' = << >>
    /\ lastOp' = NoOp
    /\ UNCHANGED <<fileOnDisk, nextSalt, saved, fresh>>

\* updateAdd, enter on the last field with id and password filled in.
PM_AddEnter(id, e, order, io) ==
    /\ mode = "add"
    /\ DrawsSalt => nextSalt <= MaxSalt
    /\ LET a == Add(psEntries, id, e.Description, e.Password)
           r == Save(fileOnDisk, a.entries, masterPwd, NilSalt, nextSalt,
                     order, io)
       IN IF a.err # "nil"
          THEN /\ lastOp' = Op("add", id, "", a.err)
               /\ UNCHANGED <<fileOnDisk, psEntries, nextSalt, saved>>
          ELSE /\ psEntries' = a.entries
               /\ fileOnDisk' = r.file
               /\ saved' = Written(r, masterPwd, a.entries, "")
               /\ nextSalt' = IF DrawsSalt THEN nextSalt + 1 ELSE nextSalt
               /\ lastOp' = Op("add", id, "", r.err)
    /\ fresh' = NoFresh
    /\ UNCHANGED uiVars

\* updateRemove, enter on the entry under the cursor.
PM_RemoveEnter(cursor, order, listed, io) ==
    /\ mode = "remove"
    /\ cursor \in DOMAIN mEntries
    /\ DrawsSalt => nextSalt <= MaxSalt
    /\ LET id == mEntries[cursor].ID
           d == Remove(psEntries, id)
           r == Save(fileOnDisk, d.entries, masterPwd, NilSalt, nextSalt,
                     order, io)
       IN IF d.err # "nil"
          THEN /\ lastOp' = Op("remove", id, "", d.err)
               /\ UNCHANGED <<fileOnDisk, psEntries, nextSalt, saved, mEntries>>
          ELSE /\ psEntries' = d.entries
               /\ fileOnDisk' = r.file
               /\ saved' = Written(r, masterPwd, d.entries, "")
               /\ nextSalt' = IF DrawsSalt THEN nextSalt + 1 ELSE nextSalt
               /\ lastOp' = Op("remove", id, "", r.err)
               /\ mEntries' = IF r.err = "nil" THEN List(d.entries, listed)
                              ELSE mEntries
    /\ fresh' = NoFresh
    /\ UNCHANGED <<mode, masterPwd>>

\* updateChangeMaster, enter on the last field with old and new filled in.
PM_ChangeMasterEnter(old, new, confirm, order, io) ==
    /\ mode = "change-master"
    /\ nextSalt <= MaxSalt
    /\ LET r == ChangeMasterPassword(fileOnDisk, psEntries, old, new,
                                     nextSalt, order, io)
           saving == r.err \in {"nil", "failed to save with new password"}
       IN IF PassphraseLen(new) < MinMasterLen
          THEN /\ lastOp' = Op("change-master", << >>, "",
                               "New password must be at least 8 characters")
               /\ UNCHANGED <<fileOnDisk, psEntries, nextSalt, saved, masterPwd>>
          ELSE IF new # confirm
          THEN /\ lastOp' = Op("change-master", << >>, "",
                               "New passwords do not match")
               /\ UNCHANGED <<fileOnDisk, psEntries, nextSalt, saved, masterPwd>>
          ELSE /\ fileOnDisk' = r.file
               /\ psEntries' = r.entries
               /\ saved' = Written(r, new, r.entries, old)
               /\ nextSalt' = IF saving THEN nextSalt + 1 ELSE nextSalt
               /\ lastOp' = Op("change-master", << >>, "", r.err)
               /\ masterPwd' = IF r.err = "nil" THEN new ELSE masterPwd
    /\ fresh' = NoFresh
    /\ UNCHANGED <<mode, mEntries>>

StoreInit ==
    /\ fileOnDisk = [kind |-> "absent"]
    /\ psEntries = << >>
    /\ nextSalt = 1
    /\ saved = NotSaved
    /\ fresh = NoFresh
    /\ lastOp = NoOp
    /\ mode = "off"
    /\ masterPwd = ""
    /\ mEntries = << >>

StoreIdle == StoreInit

(***************************************************************************)
(* package ui, the host-selection tree: model.Update handles one key per   *)
(* call.  A tree is given by the parent (0 for a root) and the kind of     *)
(* every node; nodes are numbered in the order BuildTree appends them to   *)
(* their parent, subcategories before hosts.  The cursor is 0-based, as in *)
(* the code, and mVisible[mCursor + 1] is the node under it.               *)
(***************************************************************************)
VARIABLES
    mRoots,         \* the tree built from the configuration
    IsExpanded,     \* TreeNode.IsExpanded of every node
    mVisible,       \* m.visible: the nodes on display, top to bottom
    mCursor,        \* m.cursor
    mSelectedHost,  \* m.selectedHost: 0 for nil
    mQuitting       \* m.quitting, or the program was told to quit

treeVars == <<mRoots, IsExpanded, mVisible, mCursor, mSelectedHost, mQuitting>>

\* No category at all.
TreeEmpty == [parent |-> << >>, isCat |-> << >>]

\* Two categories, the first with a subcategory of two hosts and a host of
\* its own, the second with one host.
TreeNested ==
    [parent |-> <<0, 1, 2, 2, 1, 0, 6>>,
     isCat |-> <<TRUE, TRUE, FALSE, FALSE, FALSE, TRUE, FALSE>>]

\* One category with three hosts.
TreeFlat ==
    [parent |-> <<0, 1, 1, 1>>, isCat |-> <<TRUE, FALSE, FALSE, FALSE>>]

\* Two categories with two hosts each.
TreeTwice ==
    [parent |-> <<0, 1, 1, 0, 4, 4>>,
     isCat |-> <<TRUE, FALSE, FALSE, TRUE, FALSE, FALSE>>]

Trees == {TreeEmpty, TreeNested, TreeFlat, TreeTwice}

\* node.Children (the roots for n = 0), in order.
RECURSIVE ChildrenFrom(_, _, _)
ChildrenFrom(t, n, k) ==
    IF k > Len(t.parent) THEN << >>
    ELSE (IF t.parent[k] = n THEN <<k>> ELSE << >>)
         \o ChildrenFrom(t, n, k + 1)

Children(t, n) == ChildrenFrom(t, n, 1)

\* getVisibleNodesRecursive, and the loop over a list of nodes around it.
RECURSIVE getVisibleNodesRecursive(_, _, _)
RECURSIVE VisibleOfAll(_, _, _)
getVisibleNodesRecursive(t, exp, n) ==
    <<n>> \o (IF t.isCat[n] /\ exp[n]
              THEN VisibleOfAll(t, exp, Children(t, n))
              ELSE << >>)

VisibleOfAll(t, exp, ns) ==
    IF ns = << >> THEN << >>
    ELSE getVisibleNodesRecursive(t, exp, Head(ns))
         \o VisibleOfAll(t, exp, Tail(ns))

GetVisibleNodes(t, exp) == VisibleOfAll(t, exp, Children(t, 0))

\* expandAll(nodes, expand)
RECURSIVE expandAll(_, _, _, _)
expandAll(t, exp, ns, expand) ==
    IF ns = << >> THEN exp
    ELSE LET n == Head(ns)
             done == IF t.isCat[n]
                     THEN expandAll(t, [exp EXCEPT ![n] = expand],
                                    Children(t, n), expand)
                     ELSE exp
         IN expandAll(t, done, Tail(ns), expand)

\* The index in vis of the first entry that is node n, -1 if there is none.
IndexOf(vis, n) ==
    IF \E i \in 1..Len(vis) : vis[i] = n
    THEN (CHOOSE i \in 1..Len(vis) :
            vis[i] = n /\ \A j \in 1..(i - 1) : vis[j] # n) - 1
    ELSE -1

\* The program runs: no key has ended it.
Tree_Running == ~mQuitting /\ mSelectedHost = 0

\* case "ctrl+c", "q"
Key_Quit ==
    /\ Tree_Running
    /\ mQuitting' = TRUE
    /\ UNCHANGED <<mRoots, IsExpanded, mVisible, mCursor, mSelectedHost>>

\* case "up", "k"
Key_Up ==
    /\ Tree_Running
    /\ mCursor' = IF mCursor > 0 THEN mCursor - 1 ELSE mCursor
    /\ UNCHANGED <<mRoots, IsExpanded, mVisible, mSelectedHost, mQuitting>>

\* case "down", "j"
Key_Down ==
    /\ Tree_Running
    /\ mCursor' = IF mCursor < Len(mVisible) - 1 THEN mCursor + 1 ELSE mCursor
    /\ UNCHANGED <<mRoots, IsExpanded, mVisible, mSelectedHost, mQuitting>>

\* case "left", "h"
Key_Left ==
    /\ Tree_Running
    /\ IF mCursor < Len(mVisible)
       THEN LET node == mVisible[mCursor + 1]
            IN IF mRoots.isCat[node] /\ IsExpanded[node]
               THEN /\ IsExpanded' = [IsExpanded EXCEPT ![node] = FALSE]
                    /\ mVisible' = GetVisibleNodes(mRoots, IsExpanded')
                    /\ mCursor' = mCursor
               ELSE /\ mCursor' =
                         IF mRoots.parent[node] # 0
                            /\ IndexOf(mVisible, mRoots.parent[node]) >= 0
                         THEN IndexOf(mVisible, mRoots.parent[node])
                         ELSE mCursor
                    /\ UNCHANGED <<IsExpanded, mVisible>>
       ELSE UNCHANGED <<IsExpanded, mVisible, mCursor>>
    /\ UNCHANGED <<mRoots, mSelectedHost, mQuitting>>

\* case "right", "l"
Key_Right ==
    /\ Tree_Running
    /\ IF mCursor < Len(mVisible)
          /\ mRoots.isCat[mVisible[mCursor + 1]]
          /\ ~IsExpanded[mVisible[mCursor + 1]]
       THEN /\ IsExpanded' = [IsExpanded EXCEPT ![mVisible[mCursor + 1]] = TRUE]
            /\ mVisible' = GetVisibleNodes(mRoots, IsExpanded')
       ELSE UNCHANGED <<IsExpanded, mVisible>>
    /\ UNCHANGED <<mRoots, mCursor, mSelectedHost, mQuitting>>

\* case "enter", " "
Key_Enter ==
    /\ Tree_Running
    /\ IF mCursor < Len(mVisible)
       THEN LET node == mVisible[mCursor + 1]
            IN IF mRoots.isCat[node]
               THEN /\ IsExpanded' =
                         [IsExpanded EXCEPT ![node] = ~IsExpanded[node]]
                    /\ mVisible' = GetVisibleNodes(mRoots, IsExpanded')
                    /\ mSelectedHost' = mSelectedHost
               ELSE /\ mSelectedHost' = node
                    /\ UNCHANGED <<IsExpanded, mVisible>>
       ELSE UNCHANGED <<IsExpanded, mVisible, mSelectedHost>>
    /\ UNCHANGED <<mRoots, mCursor, mQuitting>>

\* case "e": expand all
Key_ExpandAll ==
    /\ Tree_Running
    /\ IsExpanded' = expandAll(mRoots, IsExpanded, Children(mRoots, 0), TRUE)
    /\ mVisible' = GetVisibleNodes(mRoots, IsExpanded')
    /\ UNCHANGED <<mRoots, mCursor, mSelectedHost, mQuitting>>

\* case "c": collapse all
Key_CollapseAll ==
    /\ Tree_Running
    /\ IsExpanded' = expandAll(mRoots, IsExpanded, Children(mRoots, 0), FALSE)
    /\ mVisible' = GetVisibleNodes(mRoots, IsExpanded')
    /\ UNCHANGED <<mRoots, mCursor, mSelectedHost, mQuitting>>

\* initialModel: BuildTree leaves every node collapsed, then the roots are
\* expanded.
initialExpanded(t) == [n \in 1..Len(t.parent) |-> t.parent[n] = 0]

TreeInit ==
    /\ mRoots \in Trees
    /\ IsExpanded = initialExpanded(mRoots)
    /\ mVisible = GetVisibleNodes(mRoots, IsExpanded)
    /\ mCursor = 0
    /\ mSelectedHost = 0
    /\ mQuitting = FALSE

\* No host list is on display.
TreeIdle ==
    /\ mRoots = TreeEmpty
    /\ IsExpanded = << >>
    /\ mVisible = << >>
    /\ mCursor = 0
    /\ mSelectedHost = 0
    /\ mQuitting = FALSE

(***************************************************************************)
(* Specifications                                                          *)
(***************************************************************************)
vars == <<filterVars, sessionVars, frontVars, storeVars, treeVars>>

InitFilter == FilterInit /\ SessionIdle /\ FrontIdle /\ StoreIdle /\ TreeIdle

NextFilter ==
    \/ (\E p \in BSeq(MaxStream - Len(Stream)) : TFRead(p))
         /\ UNCHANGED <<sessionVars, frontVars, storeVars, treeVars>>
    \/ TFReadEOF /\ UNCHANGED <<sessionVars, frontVars, storeVars, treeVars>>

SpecFilter == InitFilter /\ [][NextFilter]_vars

InitSession == SessionInit /\ FilterInit /\ FrontIdle /\ StoreIdle /\ TreeIdle

NextSession ==
    \/ CI_Parse /\ UNCHANGED <<filterVars, frontVars, storeVars, treeVars>>
    \/ CI_StoreExists /\ UNCHANGED <<filterVars, frontVars, storeVars, treeVars>>
    \/ (\E pw \in Passphrases \cup {"error"} : CI_Prompt(pw))
         /\ UNCHANGED <<filterVars, frontVars, storeVars, treeVars>>
    \/ CI_Load /\ UNCHANGED <<filterVars, frontVars, storeVars, treeVars>>
    \/ CI_FindSeed /\ UNCHANGED <<filterVars, frontVars, storeVars, treeVars>>
    \/ (\E ok \in BOOLEAN : CI_PtyStart(ok)) /\ UNCHANGED <<filterVars, frontVars, storeVars, treeVars>>
    \/ CI_Notify /\ UNCHANGED <<filterVars, frontVars, storeVars, treeVars>>
    \/ CI_InitialResize /\ UNCHANGED <<filterVars, frontVars, storeVars, treeVars>>
    \/ (\E ok \in BOOLEAN : CI_MakeRaw(ok)) /\ UNCHANGED <<filterVars, frontVars, storeVars, treeVars>>
    \/ CI_SpawnAuto /\ UNCHANGED <<filterVars, frontVars, storeVars, treeVars>>
    \/ CI_CopyOut /\ UNCHANGED <<filterVars, frontVars, storeVars, treeVars>>
    \/ CI_CopyOutEnd /\ UNCHANGED <<filterVars, frontVars, storeVars, treeVars>>
    \/ CI_Wait /\ UNCHANGED <<filterVars, frontVars, storeVars, treeVars>>
    \/ Auto_InitialSleep /\ UNCHANGED <<filterVars, frontVars, storeVars, treeVars>>
    \/ Auto_Send /\ UNCHANGED <<filterVars, frontVars, storeVars, treeVars>>
    \/ Auto_SendPass /\ UNCHANGED <<filterVars, frontVars, storeVars, treeVars>>
    \/ Auto_Wait /\ UNCHANGED <<filterVars, frontVars, storeVars, treeVars>>
    \/ Auto_Interact /\ UNCHANGED <<filterVars, frontVars, storeVars, treeVars>>
    \/ Auto_Exec /\ UNCHANGED <<filterVars, frontVars, storeVars, treeVars>>
    \/ Auto_SleepDone /\ UNCHANGED <<filterVars, frontVars, storeVars, treeVars>>
    \/ Auto_HandOver /\ UNCHANGED <<filterVars, frontVars, storeVars, treeVars>>
    \/ Copy_Key /\ UNCHANGED <<filterVars, frontVars, storeVars, treeVars>>
    \/ Resize_Handle /\ UNCHANGED <<filterVars, frontVars, storeVars, treeVars>>
    \/ Env_Winch(winSize) /\ UNCHANGED <<filterVars, frontVars, storeVars, treeVars>>
    \/ Env_SeedOutput /\ UNCHANGED <<filterVars, frontVars, storeVars, treeVars>>
    \/ Env_SeedExit /\ UNCHANGED <<filterVars, frontVars, storeVars, treeVars>>

SpecSession == InitSession /\ [][NextSession]_vars

\* The Go scheduler runs every runnable goroutine and every sleep ends.
FairSpecSession ==
    /\ SpecSession
    /\ WF_vars(MainStep /\ UNCHANGED <<filterVars, frontVars, storeVars, treeVars>>)
    /\ WF_vars(AutoStep /\ UNCHANGED <<filterVars, frontVars, storeVars, treeVars>>)
    /\ WF_vars(Resize_Handle /\ UNCHANGED <<filterVars, frontVars, storeVars, treeVars>>)

\* The session on a terminal whose window is resized and whose input may
\* end, for the shorter command lists.
TerminalInit ==
    /\ SessionInit
    /\ Len(commands) < MaxCmds
    /\ stdinTermios = CookedTermios

InitTerminal == TerminalInit /\ FilterInit /\ FrontIdle /\ StoreIdle /\ TreeIdle

NextTerminal ==
    \/ CI_Parse /\ UNCHANGED <<filterVars, frontVars, storeVars, treeVars>>
    \/ CI_StoreExists /\ UNCHANGED <<filterVars, frontVars, storeVars, treeVars>>
    \/ (\E pw \in Passphrases \cup {"error"} : CI_Prompt(pw))
         /\ UNCHANGED <<filterVars, frontVars, storeVars, treeVars>>
    \/ CI_Load /\ UNCHANGED <<filterVars, frontVars, storeVars, treeVars>>
    \/ CI_FindSeed /\ UNCHANGED <<filterVars, frontVars, storeVars, treeVars>>
    \/ (\E ok \in BOOLEAN : CI_PtyStart(ok)) /\ UNCHANGED <<filterVars, frontVars, storeVars, treeVars>>
    \/ CI_Notify /\ UNCHANGED <<filterVars, frontVars, storeVars, treeVars>>
    \/ CI_InitialResize /\ UNCHANGED <<filterVars, frontVars, storeVars, treeVars>>
    \/ (\E ok \in BOOLEAN : CI_MakeRaw(ok)) /\ UNCHANGED <<filterVars, frontVars, storeVars, treeVars>>
    \/ CI_SpawnAuto /\ UNCHANGED <<filterVars, frontVars, storeVars, treeVars>>
    \/ CI_CopyOut /\ UNCHANGED <<filterVars, frontVars, storeVars, treeVars>>
    \/ CI_CopyOutEnd /\ UNCHANGED <<filterVars, frontVars, storeVars, treeVars>>
    \/ CI_Wait /\ UNCHANGED <<filterVars, frontVars, storeVars, treeVars>>
    \/ Auto_InitialSleep /\ UNCHANGED <<filterVars, frontVars, storeVars, treeVars>>
    \/ Auto_Send /\ UNCHANGED <<filterVars, frontVars, storeVars, treeVars>>
    \/ Auto_SendPass /\ UNCHANGED <<filterVars, frontVars, storeVars, treeVars>>
    \/ Auto_Wait /\ UNCHANGED <<filterVars, frontVars, storeVars, treeVars>>
    \/ Auto_Interact /\ UNCHANGED <<filterVars, frontVars, storeVars, treeVars>>
    \/ Auto_Exec /\ UNCHANGED <<filterVars, frontVars, storeVars, treeVars>>
    \/ Auto_SleepDone /\ UNCHANGED <<filterVars, frontVars, storeVars, treeVars>>
    \/ Auto_HandOver /\ UNCHANGED <<filterVars, frontVars, storeVars, treeVars>>
    \/ Copy_Key /\ UNCHANGED <<filterVars, frontVars, storeVars, treeVars>>
    \/ Resize_Handle /\ UNCHANGED <<filterVars, frontVars, storeVars, treeVars>>
    \/ (\E size \in WinSizes : Env_Winch(size))
         /\ UNCHANGED <<filterVars, frontVars, storeVars, treeVars>>
    \/ Env_StdinClose /\ UNCHANGED <<filterVars, frontVars, storeVars, treeVars>>
    \/ Env_SeedOutput /\ UNCHANGED <<filterVars, frontVars, storeVars, treeVars>>
    \/ Env_SeedExit /\ UNCHANGED <<filterVars, frontVars, storeVars, treeVars>>

SpecTerminal == InitTerminal /\ [][NextTerminal]_vars

\* As FairSpecSession; a send blocked on the full channel ch is served by
\* the next receive (the runtime queues blocked senders), so the main flow
\* is not overtaken for ever by new signals: its fairness is strong.
FairSpecTerminal ==
    /\ SpecTerminal
    /\ SF_vars(MainStep /\ UNCHANGED <<filterVars, frontVars, storeVars, treeVars>>)
    /\ WF_vars(AutoStep /\ UNCHANGED <<filterVars, frontVars, storeVars, treeVars>>)
    /\ WF_vars(Resize_Handle /\ UNCHANGED <<filterVars, frontVars, storeVars, treeVars>>)

InitMain == FrontInit /\ FilterInit /\ SessionIdle /\ StoreIdle /\ TreeIdle

NextMain ==
    \/ Main_Validate /\ UNCHANGED <<filterVars, sessionVars, storeVars, treeVars>>
    \/ Main_Dispatch /\ UNCHANGED <<filterVars, sessionVars, storeVars, treeVars>>
    \/ (\E ok \in BOOLEAN : Main_ConnectInteractive(ok))
         /\ UNCHANGED <<filterVars, sessionVars, storeVars, treeVars>>
    \/ (\E execOk, runOk \in BOOLEAN : Main_Single(execOk, runOk))
         /\ UNCHANGED <<filterVars, sessionVars, storeVars, treeVars>>
    \/ CWC_Compile /\ UNCHANGED <<filterVars, sessionVars, storeVars, treeVars>>
    \/ (\E execOk \in BOOLEAN : CWC_Exec(execOk))
         /\ UNCHANGED <<filterVars, sessionVars, storeVars, treeVars>>
    \/ (\E runOk \in BOOLEAN : Main_Fallback(runOk))
         /\ UNCHANGED <<filterVars, sessionVars, storeVars, treeVars>>

SpecMain == InitMain /\ [][NextMain]_vars

InitCompile == CompileInit /\ FilterInit /\ SessionIdle /\ StoreIdle /\ TreeIdle

NextCompile ==
    \/ CWC_Compile /\ UNCHANGED <<filterVars, sessionVars, storeVars, treeVars>>
    \/ (\E execOk \in BOOLEAN : CWC_Exec(execOk))
         /\ UNCHANGED <<filterVars, sessionVars, storeVars, treeVars>>

SpecCompile == InitCompile /\ [][NextCompile]_vars

InitParse == ParseInit /\ FilterInit /\ SessionIdle /\ StoreIdle /\ TreeIdle

NextParse == Parse_Call /\ UNCHANGED <<filterVars, sessionVars, storeVars, treeVars>>

SpecParse == InitParse /\ [][NextParse]_vars

InitStore == StoreInit /\ FilterInit /\ SessionIdle /\ FrontIdle /\ TreeIdle

NextStore ==
    \/ (\E pw \in Passphrases, io \in IOOutcomes : Store_Initialize(pw, io))
         /\ UNCHANGED <<filterVars, sessionVars, frontVars, treeVars>>
    \/ (\E pw \in Passphrases : Store_Load(pw))
         /\ UNCHANGED <<filterVars, sessionVars, frontVars, treeVars>>
    \/ (\E pw \in Passphrases, order \in Orders(psEntries), io \in IOOutcomes :
          Store_Save(pw, order, io))
         /\ UNCHANGED <<filterVars, sessionVars, frontVars, treeVars>>
    \/ (\E id \in StoreIds, e \in EntryPool : Store_Add(id, e))
         /\ UNCHANGED <<filterVars, sessionVars, frontVars, treeVars>>
    \/ (\E id \in StoreIds : Store_Remove(id))
         /\ UNCHANGED <<filterVars, sessionVars, frontVars, treeVars>>
    \/ (\E id \in StoreIds : Store_Get(id))
         /\ UNCHANGED <<filterVars, sessionVars, frontVars, treeVars>>
    \/ (\E order \in Orders(psEntries) : Store_List(order))
         /\ UNCHANGED <<filterVars, sessionVars, frontVars, treeVars>>
    \/ (\E k \in 1..Cardinality(StoreIds), e \in EntryPool : Caller_Modify(k, e))
         /\ UNCHANGED <<filterVars, sessionVars, frontVars, treeVars>>
    \/ (\E old \in Passphrases, new \in Passphrases :
          \E order \in Orders(ReadBack(old)), io \in IOOutcomes :
            Store_ChangeMasterPassword(old, new, order, io))
         /\ UNCHANGED <<filterVars, sessionVars, frontVars, treeVars>>
    \/ (\E pw \in Passphrases : Fresh_Load(pw))
         /\ UNCHANGED <<filterVars, sessionVars, frontVars, treeVars>>
    \/ (\E id \in StoreIds : Fresh_Get(id))
         /\ UNCHANGED <<filterVars, sessionVars, frontVars, treeVars>>

SpecStore == InitStore /\ [][NextStore]_vars

InitManager == StoreInit /\ FilterInit /\ SessionIdle /\ FrontIdle /\ TreeIdle

NextManager ==
    \/ (\E pw \in TypedPassphrases, confirm \in TypedPassphrases, io \in IOOutcomes :
          PM_Start(pw, confirm, io))
         /\ UNCHANGED <<filterVars, sessionVars, frontVars, treeVars>>
    \/ (\E choice \in {"add", "remove", "change-master"},
           order \in Orders(psEntries) : PM_Menu(choice, order))
         /\ UNCHANGED <<filterVars, sessionVars, frontVars, treeVars>>
    \/ PM_Esc /\ UNCHANGED <<filterVars, sessionVars, frontVars, treeVars>>
    \/ PM_Quit /\ UNCHANGED <<filterVars, sessionVars, frontVars, treeVars>>
    \/ (\E id \in StoreIds, e \in EntryPool, io \in IOOutcomes :
          \E order \in Orders(Add(psEntries, id, e.Description, e.Password).entries) :
            PM_AddEnter(id, e, order, io))
         /\ UNCHANGED <<filterVars, sessionVars, frontVars, treeVars>>
    \/ (\E cursor \in DOMAIN mEntries, io \in IOOutcomes :
          \E order \in Orders(Remove(psEntries, mEntries[cursor].ID).entries),
             listed \in Orders(Remove(psEntries, mEntries[cursor].ID).entries) :
            PM_RemoveEnter(cursor, order, listed, io))
         /\ UNCHANGED <<filterVars, sessionVars, frontVars, treeVars>>
    \/ (\E old \in Passphrases, new \in TypedPassphrases,
           confirm \in TypedPassphrases :
          \E order \in Orders(ReadBack(old)), io \in IOOutcomes :
            PM_ChangeMasterEnter(old, new, confirm, order, io))
         /\ UNCHANGED <<filterVars, sessionVars, frontVars, treeVars>>

SpecManager == InitManager /\ [][NextManager]_vars

InitTree == TreeInit /\ FilterInit /\ SessionIdle /\ FrontIdle /\ StoreIdle

NextTree ==
    \/ Key_Quit /\ UNCHANGED <<filterVars, sessionVars, frontVars, storeVars>>
    \/ Key_Up /\ UNCHANGED <<filterVars, sessionVars, frontVars, storeVars>>
    \/ Key_Down /\ UNCHANGED <<filterVars, sessionVars, frontVars, storeVars>>
    \/ Key_Left /\ UNCHANGED <<filterVars, sessionVars, frontVars, storeVars>>
    \/ Key_Right /\ UNCHANGED <<filterVars, sessionVars, frontVars, storeVars>>
    \/ Key_Enter /\ UNCHANGED <<filterVars, sessionVars, frontVars, storeVars>>
    \/ Key_ExpandAll /\ UNCHANGED <<filterVars, sessionVars, frontVars, storeVars>>
    \/ Key_CollapseAll /\ UNCHANGED <<filterVars, sessionVars, frontVars, storeVars>>

SpecTree == InitTree /\ [][NextTree]_vars

(***************************************************************************)
(* Properties of the Output Filter                                         *)
(***************************************************************************)
\* buf[i..j] is a complete CSI sequence: ESC [ parameters terminator.
CSIAt(buf, i, j) ==
    /\ 1 <= i /\ i + 2 <= j /\ j <= Len(buf)
    /\ buf[i] = 27 /\ buf[i + 1] = 91
    /\ \A k \in (i + 2)..(j - 1) :
          (buf[k] >= 48 /\ buf[k] <= 57) \/ buf[k] \in {59, 63, 61, 62, 33, 32}
    /\ buf[j] >= 64 /\ buf[j] <= 126

\* buf[i..Len(buf)] is ESC [ followed only by parameter bytes.
UnterminatedAt(buf, i) ==
    /\ 1 <= i /\ i + 1 <= Len(buf)
    /\ buf[i] = 27 /\ buf[i + 1] = 91
    /\ \A k \in (i + 2)..Len(buf) :
          (buf[k] >= 48 /\ buf[k] <= 57) \/ buf[k] \in {59, 63, 61, 62, 33, 32}

\* buf[i..j] is a bare ";<digits>" fragment followed by R or c.
FragmentAt(buf, i, j) ==
    /\ 1 <= i /\ i + 2 <= j /\ j <= Len(buf)
    /\ buf[i] = 59
    /\ \A k \in (i + 1)..(j - 1) : buf[k] >= 48 /\ buf[k] <= 57
    /\ buf[j] \in {82, 99}

\* Positions of s inside a query-response CSI sequence or a bare fragment.
Droppable(s) ==
    {k \in 1..Len(s) :
        \E i \in 1..k, j \in k..Len(s) :
            \/ CSIAt(s, i, j) /\ s[j] \in {82, 99, 110}
            \/ FragmentAt(s, i, j)}

\* The bytes of buf at the positions in S, in increasing order of position.
RECURSIVE Restrict(_, _, _)
Restrict(buf, S, k) ==
    IF k > Len(buf) THEN << >>
    ELSE IF k \in S THEN <<buf[k]>> \o Restrict(buf, S, k + 1)
    ELSE Restrict(buf, S, k + 1)

\* The bytes the latest Read returned.
LastOut == SubSeq(screen, Len(screen) - Cardinality(lastKept) + 1, Len(screen))

\* What a fresh filter returns when the stream s arrives in one read.
FreshRead(s) == CopyInto(ReadBufLen, Scan(s, 1, << >>, << >>).filtered)

\* C1: the output of two consecutive reads, concatenated, equals the output
\* of a single read of the concatenated input.
C1_SplitEqualsWhole ==
    Len(chunks) = 2 => screen = FreshRead(Stream)

\* C2: when a read ends inside a CSI sequence, none of the bytes of the
\* unterminated prefix are emitted by that read and the carry-over buffer
\* holds exactly that prefix afterwards.
C2_PrefixRetained ==
    \A i \in 1..Len(lastBuf) :
        UnterminatedAt(lastBuf, i) =>
            /\ lastKept \cap (i..Len(lastBuf)) = {}
            /\ tfBuffer = SubSeq(lastBuf, i, Len(lastBuf))

\* C3: within one read every complete CSI sequence terminated by R, c or n
\* is dropped entirely, every other complete CSI sequence is emitted
\* byte-identical at its position.
C3_CompleteCSI ==
    /\ LastOut = Restrict(lastBuf, lastKept, 1)
    /\ \A i \in 1..Len(lastBuf), j \in 1..Len(lastBuf) :
          CSIAt(lastBuf, i, j) =>
              IF lastBuf[j] \in {82, 99, 110}
              THEN lastKept \cap (i..j) = {}
              ELSE (i..j) \subseteq lastKept

\* A read scanned a complete query response followed by further bytes,
\* dropped the response and emitted the rest.
C3_Witness ==
    /\ \E i, j \in 1..Len(lastBuf) :
          /\ CSIAt(lastBuf, i, j)
          /\ lastBuf[j] \in {82, 99, 110}
          /\ j < Len(lastBuf)
    /\ LastOut # << >>

\* C4: every input byte outside a dropped CSI sequence and outside a dropped
\* bare fragment (and not still held in the carry-over buffer) is in the
\* output exactly once, unchanged and in input order.
C4_PassThrough ==
    LET s == Stream
        pending == (Len(s) - Len(tfBuffer) + 1)..Len(s)
    IN /\ \A k \in (1..Len(s)) \ (Droppable(s) \cup pending) :
             Cardinality({m \in 1..Len(keptIdx) : keptIdx[m] = k}) = 1
       /\ \A m \in 1..Len(keptIdx) : screen[m] = s[keptIdx[m]]
       /\ \A m \in 1..(Len(keptIdx) - 1) : keptIdx[m] < keptIdx[m + 1]

(***************************************************************************)
(* Properties of the Scripted Interaction Engine                           *)
(***************************************************************************)
IsSendPassCmd(c) ==
    Len(c) >= 9 /\ SubSeq(c, 1, 9) = <<"S", "E", "N", "D", "P", "A", "S", "S", ":">>

IsSendCmd(c) == Len(c) >= 5 /\ SubSeq(c, 1, 5) = <<"S", "E", "N", "D", ":">>

IsWaitCmd(c) == Len(c) >= 5 /\ SubSeq(c, 1, 5) = <<"W", "A", "I", "T", ":">>

IsInteractCmd(c) ==
    \/ c = <<"I", "N", "T", "E", "R", "A", "C", "T">>
    \/ c = <<"I", "N", "T", "E", "R", "A", "C", "T", "I", "V", "E">>

IsExecCmd(c) ==
    ~IsSendCmd(c) /\ ~IsSendPassCmd(c) /\ ~IsWaitCmd(c) /\ ~IsInteractCmd(c)

\* Position in commands of the seed: the first entry that is no directive.
SeedPos ==
    IF \E k \in 1..Len(commands) : IsExecCmd(commands[k])
    THEN CHOOSE k \in 1..Len(commands) :
           /\ IsExecCmd(commands[k])
           /\ \A m \in 1..(k - 1) : ~IsExecCmd(commands[m])
    ELSE 0

\* Position of the first Interact directive after the seed, 0 if none.
FirstInteract ==
    LET after == {k \in (SeedPos + 1)..Len(commands) : IsInteractCmd(commands[k])}
    IN IF SeedPos = 0 \/ after = {} THEN 0
       ELSE CHOOSE k \in after : \A m \in after : k <= m

\* The secret the store file on disk holds for id (<<>> if none).
SecretOnDisk(id) ==
    IF disk.kind # "file" THEN << >>
    ELSE LET list == disk.data.plaintext
             hits == {k \in 1..Len(list) : list[k].ID = id}
         IN IF hits = {} THEN << >>
            ELSE list[CHOOSE k \in hits : TRUE].Password.b64.plaintext

\* The text the directive at position k of commands has to type.
ExpectedText(k) ==
    LET c == commands[k]
    IN IF IsSendCmd(c) THEN SubSeq(c, 6, Len(c)) \o <<"\n">>
       ELSE IF IsSendPassCmd(c)
       THEN SecretOnDisk(SubSeq(c, 10, Len(c))) \o <<"\n">>
       ELSE c \o <<"\n">>

\* The store file opens under the passphrase pw.
Unlocks(pw) == disk.kind = "file" /\ disk.data.key = <<pw, disk.salt>>

HasSendPassCmd == \E k \in 1..Len(commands) : IsSendPassCmd(commands[k])

\* C5: when a SendPass directive fails during automation, the session goes
\* on and, unless the seed process ends first, the terminal's input is
\* eventually forwarded to the PTY.
C5_FailedSendPassHandsOver ==
    (autoPc = "aborted" /\ mainPc = "copyOut" /\ seed = "running")
        ~> (stdinCopy = "running" \/ seed = "exited")

\* C6: once the automation script is exhausted without an Interact
\* directive, copying of the terminal's input into the PTY eventually starts.
C6_ExhaustedHandsOver ==
    (autoPc = "dispatch" /\ autoIdx > Len(parsed)) ~> (stdinCopy = "running")

\* A script of two directives ran to its end and the automation goroutine
\* is now copying the keyboard into the PTY.
C6_Witness ==
    /\ autoPc = "copy"
    /\ stdinCopy = "running"
    /\ Len(autoWrites) = 2
    /\ FirstInteract = 0
    /\ userFwd

\* Positions of commands whose directive has typed its text by now.
Typed ==
    {k \in (SeedPos + 1)..Len(commands) :
        /\ ~IsWaitCmd(commands[k]) /\ ~IsInteractCmd(commands[k])
        /\ autoPc \notin {"none", "sleep"}
        /\ k < autoIdx \/ (k = autoIdx /\ autoPc = "settle")}

\* The positions in S in increasing order.
RECURSIVE Ascending(_)
Ascending(S) ==
    IF S = {} THEN << >>
    ELSE LET m == CHOOSE k \in S : \A n \in S : k <= n
         IN <<m>> \o Ascending(S \ {m})

C7_InOrder ==
    LET order == Ascending(Typed)
    IN /\ Len(autoWrites) = Len(order)
       /\ \A n \in 1..Len(order) :
             /\ autoWrites[n].idx = order[n]
             /\ autoWrites[n].text = ExpectedText(order[n])

C7_Settled ==
    /\ autoWrites' # autoWrites =>
          autoPc = "dispatch" /\ autoPc' = "settle" /\ autoIdx' = autoIdx
    /\ autoPc = "settle" /\ autoPc' # autoPc =>
          autoPc' = "dispatch" /\ autoIdx' = autoIdx + 1
          /\ autoWrites' = autoWrites

\* C7: the automation task types value+newline for each Send and the
\* resolved secret+newline for each SendPass in list order, none skipped,
\* duplicated or reordered, and starts no directive before the previous
\* write and its settling delay are over.
C7_OrderedWrites == []C7_InOrder /\ [][C7_Settled]_vars

\* A Send and a SendPass after the seed have both typed their text.
C7_Witness ==
    /\ Len(autoWrites) = 2
    /\ \E k \in Typed : IsSendCmd(commands[k])
    /\ \E k \in Typed : IsSendPassCmd(commands[k])
    /\ autoWrites[2].ok
    /\ autoPc = "settle"

\* C8: at an Interact directive the automation task starts copying the
\* terminal's input and handles no further directive: nothing positioned
\* after the first Interact is ever typed into the PTY.
C8_InteractStops ==
    FirstInteract > 0 =>
        /\ \A n \in 1..Len(autoWrites) : autoWrites[n].idx < FirstInteract
        /\ autoIdx <= FirstInteract
        /\ autoPc \notin {"settle", "waiting", "copy"} \/ autoIdx < FirstInteract
        /\ autoIdx = FirstInteract /\ autoPc # "dispatch" =>
              autoPc = "done" /\ stdinCopy # "none"

\* Interact was reached with a Send still behind it in the list, and the
\* keyboard is being forwarded.
C8_Witness ==
    /\ FirstInteract > 0
    /\ autoIdx = FirstInteract
    /\ autoPc = "done"
    /\ \E k \in (FirstInteract + 1)..Len(commands) : IsSendCmd(commands[k])
    /\ stdinCopy = "running"
    /\ userFwd

\* The store is needed and is missing, or does not open with the
\* passphrase that was typed.
UnlockFails ==
    /\ HasSendPassCmd
    /\ \/ disk.kind = "absent" /\ mainPc # "start"
       \/ /\ disk.kind # "absent"
          /\ mainPc \notin {"start", "storeExists", "prompt"}
          /\ masterPassword # ""
          /\ ~Unlocks(masterPassword)

IsError(r) == r \notin {"none", "nil"}

\* C9: with a SendPass directive in the list and no store on disk, or a
\* store that does not unlock, ConnectInteractive returns an error and the
\* seed command is never launched.
C9_NoStoreNoSession ==
    UnlockFails =>
        /\ seed = "none" /\ ptmx = "none"
        /\ \/ mainPc \in {"storeExists", "load"} /\ result = "none"
           \/ mainPc = "returned" /\ IsError(result)

\* ConnectInteractive has returned because the store did not open.
C9_Witness ==
    /\ UnlockFails
    /\ disk.kind = "file"
    /\ mainPc = "returned"
    /\ result = "failed to load password store"
    /\ \E k \in 1..Len(commands) : IsExecCmd(commands[k])

SetupErrors ==
    {"failed to load password store", "failed to start pty",
     "failed to set raw mode"}

\* C10: when store unlock, PTY allocation or raw-mode setup fails the
\* session is aborted with an error and no automation directive is written
\* to the PTY, before or after the error is returned.
C10_SetupFailureNoAutomation ==
    /\ result \in SetupErrors =>
          mainPc = "returned" /\ autoWrites = << >> /\ autoPc = "none"
    /\ UnlockFails /\ disk.kind # "absent" /\ mainPc # "load" =>
          result \in SetupErrors

\* Raw mode could not be set for a session whose script has a Send, and
\* the seed has meanwhile run and exited.
C10_Witness ==
    /\ result = "failed to set raw mode"
    /\ \E k \in (SeedPos + 1)..Len(commands) : IsSendCmd(commands[k])
    /\ seed = "exited"
    /\ sigCh = 0


InteractiveKinds == {"Send", "SendPass", "Wait", "Interact"}

\* C12: the interactive engine is chosen exactly when the parsed directive
\* list has at least one Send, SendPass, Wait or Interact directive; a list
\* whose directives are all Exec goes to the command-chain compiler.
C12_InteractiveIffDirective ==
    route # "none" =>
        (route = "interactive"
           <=> \E k \in 1..Len(hostCommands) :
                 ParseCommands(hostCommands)[k].Type \in InteractiveKinds)

\* sub occurs in s, and the first position (0-based offset) where it does.
Occurs(sub, s) ==
    \E k \in 0..(Len(s) - Len(sub)) : \A j \in 1..Len(sub) : s[k + j] = sub[j]
FirstOffset(sub, s) ==
    CHOOSE k \in 0..(Len(s) - Len(sub)) :
        /\ \A j \in 1..Len(sub) : s[k + j] = sub[j]
        /\ \A m \in 0..(k - 1) : \E j \in 1..Len(sub) : s[m + j] # sub[j]

MentionsSsh(e) == Occurs(<<"s", "s", "h">>, e)
HasTTFlag(e) ==
    Occurs(<<" ", "-", "t", "t">>, e) \/ Occurs(<<" ", "-", "t", " ">>, e)

\* The index of the first entry that mentions ssh (0: none does).
SshPos(cmds) ==
    IF \E i \in 1..Len(cmds) : MentionsSsh(cmds[i])
    THEN CHOOSE i \in 1..Len(cmds) :
           /\ MentionsSsh(cmds[i])
           /\ \A j \in 1..(i - 1) : ~MentionsSsh(cmds[j])
    ELSE 0

\* The entries of a non-empty list separated by sep, built from the right.
RECURSIVE Chain(_, _)
Chain(list, sep) ==
    IF Len(list) = 1 THEN list[1]
    ELSE Chain(SubSeq(list, 1, Len(list) - 1), sep) \o sep \o list[Len(list)]

\* The remote script: the entries after the SSH entry separated by "; ",
\* the last one prefixed with "exec " when it mentions ssh.
ScriptOf(remote) ==
    Chain([k \in 1..Len(remote) |->
             IF k = Len(remote) /\ MentionsSsh(remote[k])
             THEN <<"e", "x", "e", "c", " ">> \o remote[k]
             ELSE remote[k]],
          <<";", " ">>)

\* The SSH entry with "-tt" ensured: an entry with a flag is kept; otherwise
\* "-tt" and a separating blank go right after the first "ssh ", when the
\* entry has one.
WithTT(e) ==
    IF HasTTFlag(e) \/ ~Occurs(<<"s", "s", "h", " ">>, e) THEN e
    ELSE LET k == FirstOffset(<<"s", "s", "h", " ">>, e)
         IN [j \in 1..(Len(e) + 4) |->
               IF j <= k + 4 THEN e[j]
               ELSE IF j <= k + 8 THEN <<"-", "t", "t", " ">>[j - k - 4]
               ELSE e[j - 4]]

\* A script as one single-quoted shell word: every quote inside it closes
\* the quoting, adds a double-quoted quote and opens the quoting again.
RECURSIVE QuoteBody(_)
QuoteBody(script) ==
    IF script = << >> THEN << >>
    ELSE (IF Head(script) = "'" THEN <<"'", "\"", "'", "\"", "'">>
          ELSE <<Head(script)>>) \o QuoteBody(Tail(script))
SingleQuoted(script) == <<"'">> \o QuoteBody(script) \o <<"'">>

\* The specified compilation of a list that is a single entry, has no ssh
\* entry, or has its first ssh entry before the last position.
Specified(cmds) ==
    LET i == SshPos(cmds)
        pre == SubSeq(cmds, 1, i - 1)
        remote == SubSeq(cmds, i + 1, Len(cmds))
        hop == WithTT(cmds[i]) \o <<" ">> \o SingleQuoted(ScriptOf(remote))
    IN IF Len(cmds) = 1 THEN cmds[1]
       ELSE IF i = 0 THEN Chain(cmds, <<" ", "&", "&", " ">>)
       ELSE IF pre = << >> THEN hop
       ELSE Chain(pre, <<" ", "&", "&", " ">>) \o <<" ", "&", "&", " ">> \o hop

\* The lists C13 speaks about.
Compilable(cmds) ==
    Len(cmds) >= 1 /\ (Len(cmds) = 1 \/ SshPos(cmds) # Len(cmds))

\* The commands ConnectWithExec was called with.
ExecCalls == {k \in 1..Len(shellCalls) : shellCalls[k].via = "exec"}

C14_SshLastAlone ==
    (Len(hostCommands) > 1 /\ SshPos(hostCommands) = Len(hostCommands)) =>
        \A k \in 1..Len(shellCalls) :
            shellCalls[k].command = hostCommands[Len(hostCommands)]

\* Two steps and then the only ssh entry: the call has been made.
C14_Witness ==
    /\ Len(hostCommands) = 3
    /\ SshPos(hostCommands) = 3
    /\ hostCommands[1] # << >>
    /\ Len(shellCalls) = 1
    /\ shellCalls[1].ok

\* The list is compiled through the multi-hop path: several entries, the
\* first ssh entry not the last one.
MultiHopList(cmds) ==
    Len(cmds) > 1 /\ SshPos(cmds) # 0 /\ SshPos(cmds) # Len(cmds)

\* The part of a compiled command between the " && " chain of the earlier
\* entries and the quoted remote script: the SSH entry as compiled.
SshPart(command, cmds) ==
    LET i == SshPos(cmds)
        pre == SubSeq(cmds, 1, i - 1)
        lead == IF pre = << >> THEN 0
                ELSE Len(Chain(pre, <<" ", "&", "&", " ">>)) + 4
        tail == 1 + Len(SingleQuoted(ScriptOf(SubSeq(cmds, i + 1, Len(cmds)))))
    IN SubSeq(command, lead + 1, Len(command) - tail)

\* C15: in every command compiled through the multi-hop path the SSH entry
\* asks for a terminal: it contains " -tt" or " -t ", "-tt" having been put
\* right after the first "ssh " when the entry had neither flag.
C15_TerminalRequested ==
    \A k \in ExecCalls :
        MultiHopList(hostCommands) =>
            /\ HasTTFlag(SshPart(shellCalls[k].command, hostCommands))
            /\ SshPart(shellCalls[k].command, hostCommands)
                 = WithTT(hostCommands[SshPos(hostCommands)])

\* The words a POSIX shell reads from a command line: blanks separate
\* words; single quotes keep everything up to the next single quote; double
\* quotes keep everything except that a backslash protects $, " and \ (and
\* the backquote, which no command here contains); an unquoted backslash
\* protects the next character.
RECURSIVE ShellScan(_, _, _, _, _)
ShellScan(s, i, quote, cur, inWord) ==
    IF i > Len(s) THEN (IF inWord THEN <<cur>> ELSE << >>)
    ELSE IF quote = "single"
    THEN IF s[i] = "'" THEN ShellScan(s, i + 1, "plain", cur, TRUE)
         ELSE ShellScan(s, i + 1, "single", Append(cur, s[i]), TRUE)
    ELSE IF quote = "double"
    THEN IF s[i] = "\"" THEN ShellScan(s, i + 1, "plain", cur, TRUE)
         ELSE IF s[i] = "\\" /\ i < Len(s)
                 /\ s[i + 1] \in {"$", "\"", "\\"}
         THEN ShellScan(s, i + 2, "double", Append(cur, s[i + 1]), TRUE)
         ELSE ShellScan(s, i + 1, "double", Append(cur, s[i]), TRUE)
    ELSE IF s[i] = " "
    THEN (IF inWord THEN <<cur>> ELSE << >>)
         \o ShellScan(s, i + 1, "plain", << >>, FALSE)
    ELSE IF s[i] = "'" THEN ShellScan(s, i + 1, "single", cur, TRUE)
    ELSE IF s[i] = "\"" THEN ShellScan(s, i + 1, "double", cur, TRUE)
    ELSE IF s[i] = "\\" /\ i < Len(s)
    THEN ShellScan(s, i + 2, "plain", Append(cur, s[i + 1]), TRUE)
    ELSE ShellScan(s, i + 1, "plain", Append(cur, s[i]), TRUE)
ShellWords(s) == ShellScan(s, 1, "plain", << >>, FALSE)

\* C16: the quoted argument appended to the SSH entry, read by the rules of
\* shell quoting, is the remote script itself, single quotes included.
C16_QuotingRoundTrip ==
    \A k \in ExecCalls :
        MultiHopList(hostCommands) =>
            LET words == ShellWords(shellCalls[k].command)
                remote == SubSeq(hostCommands, SshPos(hostCommands) + 1,
                                 Len(hostCommands))
            IN /\ words # << >>
               /\ words[Len(words)] = ScriptOf(remote)

\* A remote script with single quotes in two of its steps was handed over.
C16_Witness ==
    /\ ExecCalls # {}
    /\ Len(hostCommands) = 3
    /\ SshPos(hostCommands) = 1
    /\ Occurs(<<"'">>, hostCommands[2])
    /\ Occurs(<<"'">>, hostCommands[3])

\* C17: for a list of several entries handled by the command-chain
\* compiler, the compiled command has been written to standard output when
\* it is executed.
C17_EchoBeforeExec ==
    \A k \in 1..Len(shellCalls) :
        (route = "chain" /\ Len(hostCommands) > 1) =>
            \E j \in 1..Len(stdout) : stdout[j] = shellCalls[k].command

\* The diagnostics with which a list is refused for having no ssh entry.
MissingSshErrors ==
    {"command must contain 'ssh'", "at least one command must contain 'ssh'"}

\* C18: a list of non-empty entries none of which mentions ssh is never
\* reported as an error on that account, and what is run for it is the
\* plain " && " chain of its entries.
C18_NoSshIsNoError ==
    (/\ Len(hostCommands) >= 1
     /\ \A i \in 1..Len(hostCommands) :
          hostCommands[i] # << >> /\ ~MentionsSsh(hostCommands[i]))
    => /\ \A j \in 1..Len(stderr) : stderr[j] \notin MissingSshErrors
       /\ \A k \in 1..Len(shellCalls) :
            shellCalls[k].command = Chain(hostCommands, <<" ", "&", "&", " ">>)

(***************************************************************************)
(* Properties of the Directive Parser and of the Wait directive            *)
(***************************************************************************)
\* c without its first n characters.
Drop(c, n) == [j \in 1..(Len(c) - n) |-> c[j + n]]

\* The directive an entry stands for, by the first rule that matches.
DirectiveOf(c) ==
    IF IsSendCmd(c) THEN [Type |-> "Send", Value |-> Drop(c, 5)]
    ELSE IF IsSendPassCmd(c) THEN [Type |-> "SendPass", Value |-> Drop(c, 9)]
    ELSE IF IsWaitCmd(c) THEN [Type |-> "Wait", Value |-> Drop(c, 5)]
    ELSE IF IsInteractCmd(c) THEN [Type |-> "Interact", Value |-> << >>]
    ELSE [Type |-> "Exec", Value |-> c]

\* C19: ParseCommands returns one directive per entry, in the order of the
\* entries, each classified by the first matching rule: "SEND:" gives Send,
\* "SENDPASS:" SendPass and "WAIT:" Wait, each with the rest of the entry;
\* exactly INTERACT or INTERACTIVE gives Interact; anything else is Exec
\* with the whole entry.
C19_ParsedInOrder ==
    frontPc = "parsed" =>
        /\ Len(ciParsed) = Len(hostCommands)
        /\ \A k \in 1..Len(hostCommands) :
             ciParsed[k] = DirectiveOf(hostCommands[k])

\* A parsed list with a near miss of INTERACT, a prefix without its colon
\* and a real directive.
C19_Witness ==
    /\ frontPc = "parsed"
    /\ Len(hostCommands) = 3
    /\ hostCommands[1] = <<"I", "N", "T", "E", "R", "A", "C", "T", " ">>
    /\ hostCommands[2] = <<"S", "E", "N", "D">>
    /\ hostCommands[3] = <<"I", "N", "T", "E", "R", "A", "C", "T", "I", "V", "E">>

Digits == <<"0", "1", "2", "3", "4", "5", "6", "7", "8", "9">>
IsNonNegInt(v) ==
    v # << >> /\ \A j \in 1..Len(v) : \E d \in 1..10 : Digits[d] = v[j]
RECURSIVE NatOf(_)
NatOf(v) ==
    IF v = << >> THEN 0
    ELSE NatOf(SubSeq(v, 1, Len(v) - 1)) * 10
         + (CHOOSE d \in 0..9 : Digits[d + 1] = v[Len(v)])

\* The seconds a Wait with value v is to take.
ExpectedWait(v) == IF IsNonNegInt(v) THEN NatOf(v) ELSE 0

\* The automation has taken up the directive at position k.
TakenUp(k) ==
    /\ autoPc \notin {"none", "sleep"}
    /\ k > startIdx
    /\ k < autoIdx \/ (k = autoIdx /\ autoPc = "waiting")

\* C20: a Wait whose value is not a number, or is negative, takes no time
\* and stops nothing; a Wait whose value is the non-negative integer N
\* sleeps N seconds, no less and never a negative time.
C20_WaitSeconds ==
    \A k \in 1..Len(commands) :
        (IsWaitCmd(commands[k]) /\ TakenUp(k)) =>
            LET n == ExpectedWait(Drop(commands[k], 5))
                es == {j \in 1..Len(waited) : waited[j].idx = k}
            IN /\ n = 0 => es = {}
               /\ n > 0 => /\ Cardinality(es) = 1
                           /\ \A j \in es : waited[j].seconds = n

(***************************************************************************)
(* Properties of the Credential Store                                      *)
(***************************************************************************)
\* The store file exists, whatever it holds.
FileThere == fileOnDisk.kind \in {"file", "short"}

\* C21: Initialize fails when a store file already exists and leaves that
\* file and the entries it holds unchanged; only when no store exists does
\* it create an empty entry set and persist it under a fresh salt.
C21_InitializeRefusesExisting ==
    [][lastOp'.op = "Initialize" =>
         IF FileThere
         THEN /\ lastOp'.err # "nil"
              /\ fileOnDisk' = fileOnDisk
              /\ saved' = saved
         ELSE lastOp'.err = "nil" =>
                /\ psEntries' = << >>
                /\ saved'.ok /\ saved'.entries = << >>
                /\ fileOnDisk'.kind = "file"
                /\ fileOnDisk'.salt = nextSalt]_vars

\* C22: when the file was last written by a Save under passphrase P, a new
\* instance that loads it under P gets exactly the id -> (description,
\* secret) mapping that was saved, whatever the order the entries were
\* serialized in, and Get on it returns for every id the secret that was
\* added under it.
C22_SaveLoadRoundTrip ==
    (fresh.loaded /\ saved.ok /\ fresh.pw = saved.pw) =>
        /\ fresh.err = "nil"
        /\ DOMAIN fresh.entries = DOMAIN saved.entries
        /\ \A id \in DOMAIN saved.entries :
             /\ fresh.entries[id].Description = saved.entries[id].Description
             /\ fresh.entries[id].Password = saved.entries[id].Password
        /\ lastOp.op = "FreshGet" =>
             IF lastOp.id \in DOMAIN saved.entries
             THEN /\ lastOp.err = "nil"
                  /\ lastOp.password = saved.entries[lastOp.id].Password
             ELSE lastOp.err # "nil"

C22_Witness ==
    /\ fresh.loaded /\ saved.ok /\ fresh.pw = saved.pw
    /\ DOMAIN saved.entries = StoreIds
    /\ saved.entries[IdDb].Password # saved.entries[IdQuoted].Password
    /\ lastOp.op = "FreshGet" /\ lastOp.id = IdQuoted
    /\ lastOp.password = saved.entries[IdQuoted].Password

\* C23: a Load under a passphrase other than the one the store file was
\* saved under fails, and the new instance it failed on holds no entry:
\* Get on it fails for every id and returns no secret.
C23_WrongPassphraseLoadsNothing ==
    (fresh.loaded /\ saved.ok /\ fresh.pw # saved.pw) =>
        /\ fresh.err # "nil"
        /\ DOMAIN fresh.entries = {}
        /\ lastOp.op = "FreshGet" =>
             (lastOp.err # "nil" /\ lastOp.password = << >>)

C23_Witness ==
    /\ fresh.loaded /\ saved.ok /\ fresh.pw # saved.pw
    /\ fresh.err # "nil"
    /\ lastOp.op = "FreshGet"
    /\ lastOp.id \in DOMAIN saved.entries

\* The file was last written by a ChangeMasterPassword that succeeded and
\* replaced one passphrase by a different one.
Changed ==
    saved.ok /\ saved.changedFrom # "" /\ saved.changedFrom # saved.pw

DoesNotDecrypt(pw) ==
    fileOnDisk.kind = "file" /\ fileOnDisk.data.key # <<pw, fileOnDisk.salt>>

\* C25: ChangeMasterPassword called with an old passphrase that does not
\* decrypt the store fails with the error "incorrect old password", which
\* no Load reports, and leaves the store file and the in-memory entries
\* unchanged.
C25_IncorrectOldPassword ==
    [][/\ (lastOp'.op = "ChangeMasterPassword" /\ DoesNotDecrypt(lastOp'.pw)) =>
            /\ lastOp'.err = "incorrect old password"
            /\ fileOnDisk' = fileOnDisk
            /\ psEntries' = psEntries
       /\ lastOp'.op \in {"Load", "FreshLoad"} =>
            lastOp'.err # "incorrect old password"]_vars

C25_Witness ==
    /\ lastOp.op = "ChangeMasterPassword"
    /\ lastOp.err = "incorrect old password"
    /\ saved.ok /\ saved.pw # lastOp.pw
    /\ DOMAIN psEntries # {}
    /\ DOMAIN psEntries # DOMAIN saved.entries

\* The file f is sealed as a whole under the key of passphrase pw and the
\* salt at its head: the entry array and every secret in it.
SealedUnder(f, pw) ==
    /\ f.kind = "file"
    /\ f.data.key = <<pw, f.salt>>
    /\ \A k \in DOMAIN f.data.plaintext :
         f.data.plaintext[k].Password.b64.key = <<pw, f.salt>>

\* C26: a Save that is given no salt leaves the salt at the head of an
\* existing store file as it is; the salt of a store file changes only
\* when the store is created (Initialize) or the master passphrase is
\* changed, and then it is a salt never used before and the whole store
\* is sealed again under it.
C26_SaltKept ==
    [][/\ (lastOp'.op = "Save" /\ fileOnDisk.kind = "file"
             /\ fileOnDisk'.kind = "file") =>
            fileOnDisk'.salt = fileOnDisk.salt
       /\ (fileOnDisk.kind = "file" /\ fileOnDisk'.kind = "file"
             /\ fileOnDisk'.salt # fileOnDisk.salt) =>
            /\ lastOp'.op \in {"Initialize", "ChangeMasterPassword"}
            /\ fileOnDisk'.salt >= nextSalt
            /\ lastOp'.err = "nil" => SealedUnder(fileOnDisk', saved'.pw)]_vars

C26_Witness ==
    /\ lastOp.op = "Save" /\ lastOp.err = "nil"
    /\ fileOnDisk.salt = 2 /\ nextSalt = 3
    /\ DOMAIN saved.entries = StoreIds

\* C27: Add fails when the id is already in the map and inserts the entry
\* otherwise; Remove and Get fail when the id is not in the map; every
\* call that fails leaves the map as it was, so a duplicate Add never
\* overwrites the stored secret; a call that succeeds touches no other
\* id, and Get returns the secret stored under the id.
C27_AddRemoveGet ==
    [][/\ lastOp'.op = "Add" =>
            IF lastOp'.id \in DOMAIN psEntries
            THEN lastOp'.err # "nil" /\ psEntries' = psEntries
            ELSE /\ lastOp'.err = "nil"
                 /\ DOMAIN psEntries' = DOMAIN psEntries \cup {lastOp'.id}
                 /\ psEntries'[lastOp'.id] \in EntryPool
                 /\ \A i \in DOMAIN psEntries : psEntries'[i] = psEntries[i]
       /\ lastOp'.op = "Remove" =>
            IF lastOp'.id \notin DOMAIN psEntries
            THEN lastOp'.err # "nil" /\ psEntries' = psEntries
            ELSE /\ lastOp'.err = "nil"
                 /\ DOMAIN psEntries' = DOMAIN psEntries \ {lastOp'.id}
                 /\ \A i \in DOMAIN psEntries' : psEntries'[i] = psEntries[i]
       /\ lastOp'.op = "Get" =>
            /\ psEntries' = psEntries
            /\ IF lastOp'.id \notin DOMAIN psEntries
               THEN lastOp'.err # "nil" /\ lastOp'.password = << >>
               ELSE /\ lastOp'.err = "nil"
                    /\ lastOp'.password = psEntries[lastOp'.id].Password]_vars

C27_Witness ==
    /\ lastOp.op = "Add" /\ lastOp.err # "nil"
    /\ lastOp.id \in DOMAIN psEntries
    /\ DOMAIN psEntries = StoreIds

\* C28: List returns exactly one entry per stored id, with the stored
\* description and with the secret replaced by the fixed mask "***", so no
\* stored secret appears in its result; the entries it returns are copies:
\* writing to one of them does not change the store.
C28_ListMasksAndCopies ==
    [][/\ lastOp'.op = "List" =>
            /\ psEntries' = psEntries
            /\ Len(lastOp'.list) = Cardinality(DOMAIN psEntries)
            /\ \A id \in DOMAIN psEntries :
                 Cardinality({k \in DOMAIN lastOp'.list :
                                lastOp'.list[k].ID = id}) = 1
            /\ \A k \in DOMAIN lastOp'.list :
                 /\ lastOp'.list[k].ID \in DOMAIN psEntries
                 /\ lastOp'.list[k].Description =
                        psEntries[lastOp'.list[k].ID].Description
                 /\ lastOp'.list[k].Password = <<"*", "*", "*">>
                 /\ \A id \in DOMAIN psEntries :
                      lastOp'.list[k].Password # psEntries[id].Password
       /\ lastOp'.op = "Modify" => psEntries' = psEntries]_vars

C28_Witness ==
    /\ lastOp.op = "Modify"
    /\ DOMAIN psEntries = StoreIds
    /\ Len(lastOp.list) = 2
    /\ \E k \in DOMAIN lastOp.list :
         /\ lastOp.list[k].Password # <<"*", "*", "*">>
         /\ lastOp.list[k].Password # psEntries[lastOp.list[k].ID].Password

\* C29: at every moment, also when a Save fails or is interrupted part-way
\* through writing, the store file is a complete blob (the previous one or
\* the new one), never a truncated or half-written one.
C29_FileNeverTorn ==
    fileOnDisk.kind = "absent"
        \/ \E pw \in Passphrases : SealedUnder(fileOnDisk, pw)

\* The entries that can be decrypted from the store file: those of the
\* last write that completed, none if the file is not a complete blob.
Decryptable == IF saved.ok THEN saved.entries ELSE << >>

\* C30: after every completed operation of the password manager (add,
\* remove, change master passphrase), whether it succeeded or reported an
\* error, the in-memory entry map and the entries decryptable from the
\* store file are the same set.
C30_MemoryMatchesDisk ==
    lastOp.op \in {"add", "remove", "change-master"} =>
        /\ DOMAIN psEntries = DOMAIN Decryptable
        /\ \A id \in DOMAIN psEntries : psEntries[id] = Decryptable[id]

(***************************************************************************)
(* Further properties of the Scripted Interaction Engine                   *)
(***************************************************************************)
C32_Inv ==
    /\ seed # "none" => (SeedPos > 0 /\ execCmd = commands[SeedPos])
    /\ \A n \in 1..Len(autoWrites) : autoWrites[n].idx > SeedPos
    /\ \A n \in 1..Len(waited) : waited[n].idx > SeedPos
    /\ autoPc \notin {"none", "sleep"} => autoIdx > SeedPos

C32_Start ==
    (autoPc = "sleep" /\ autoPc' # "sleep") => autoIdx' = SeedPos + 1

\* C32: the seed command is the first Exec entry of the list; the
\* automation starts at the directive right after it, and no directive
\* placed before the seed is ever typed into the session, waited for or
\* run.
C32_SeedIsFirstExec == []C32_Inv /\ [][C32_Start]_vars

C32_Witness ==
    /\ SeedPos = 2
    /\ IsSendCmd(commands[1])
    /\ Len(commands) = 3
    /\ Len(autoWrites) = 1
    /\ autoWrites[1].idx = 3
    /\ stdinCopy = "running"

\* What typing value as a Send directive does in one step of the automation.
C33_SendEffect(value) ==
    /\ autoWrites' = Append(autoWrites,
                            [idx |-> autoIdx, text |-> value \o <<"\n">>,
                             ok |-> ptmx = "open"])
    /\ autoPc' = "settle"
    /\ autoIdx' = autoIdx
    /\ waited' = waited
    /\ UNCHANGED <<seed, ptmx, execCmd, stdinCopy, userFwd>>

C33_Step ==
    (/\ autoPc = "dispatch"
     /\ <<autoPc, autoIdx, autoWrites>>' # <<autoPc, autoIdx, autoWrites>>
     /\ autoIdx > SeedPos
     /\ autoIdx <= Len(commands)) =>
       LET c == commands[autoIdx]
       IN /\ IsExecCmd(c) => C33_SendEffect(c)
          /\ IsSendCmd(c) => C33_SendEffect(SubSeq(c, 6, Len(c)))

\* C33: an Exec directive after the seed acts exactly as a Send directive
\* of the same value: value+newline is written to the live PTY, the same
\* settling pause follows, and no process is started.
C33_ExecAfterSeedIsSend == [][C33_Step]_vars

C33_Witness ==
    /\ SeedPos > 0
    /\ \E n \in 1..Len(autoWrites) :
          /\ autoWrites[n].idx > SeedPos
          /\ IsExecCmd(commands[autoWrites[n].idx])
          /\ autoWrites[n].text = commands[autoWrites[n].idx] \o <<"\n">>
          /\ autoWrites[n].ok
    /\ autoPc = "settle"
    /\ seed = "running"

\* The automation task has left its loop for good.
C37_AutomationOver == autoPc \in {"done", "copy"}

C37_Inv ==
    /\ stdinCopy # "none" => C37_AutomationOver
    /\ userFwd => C37_AutomationOver

C37_Step ==
    /\ stdinCopy # "none" => autoWrites' = autoWrites
    /\ (autoPc = "dispatch" /\ stdinCopy' = "running"
        /\ <<autoPc, autoIdx>>' # <<autoPc, autoIdx>>) => stdinCopy = "none"
    /\ stdinCopy = "ended" => stdinCopy' = "ended"

\* C37: terminal input is not forwarded to the PTY while the automation
\* task may still write: every automation write comes before the input
\* copy starts, and the input copy is started at most once in a session.
C37_InputAfterAutomation == []C37_Inv /\ [][C37_Step]_vars

C37_Witness ==
    /\ stdinCopy = "running"
    /\ userFwd
    /\ autoPc = "done"
    /\ Len(autoWrites) >= 1
    /\ autoIdx <= Len(commands)
    /\ IsInteractCmd(commands[autoIdx])

\* C35: in every interleaving of the resize listener with the main flow,
\* the PTY has been given the terminal's size before any PTY output is
\* copied to the real terminal.
C35_ResizeBeforeOutput == copied => ptySized

(***************************************************************************)
(* Further properties of the Credential Store                              *)
(***************************************************************************)
C39_Step ==
    (/\ lastOp'.op = "ChangeMasterPassword"
     /\ lastOp'.err = "nil"
     /\ nextSalt' = nextSalt + 1) => psEntries' = psEntries

\* C39: a successful ChangeMasterPassword leaves the entries in memory as
\* they were before the call; entries added or removed in memory and not
\* yet saved are neither lost nor brought back.
C39_ChangeKeepsMemory == [][C39_Step]_vars

(***************************************************************************)
(* Further properties of the command-chain compiler                        *)
(***************************************************************************)
\* C34: for every command list, ConnectWithCommands and
\* ConnectWithCommandsSubprocess pass the same command string to the
\* shell, so the fallback from the first to the second runs the same
\* command.
C34_SameCommandBothBackEnds ==
    /\ ConnectWithCommands(hostCommands).path =
          ConnectWithCommandsSubprocess(hostCommands).path
    /\ ConnectWithCommands(hostCommands).command =
          ConnectWithCommandsSubprocess(hostCommands).command
    /\ \A i, j \in 1..Len(shellCalls) :
          shellCalls[i].command = shellCalls[j].command
    /\ \A i, j \in 1..Len(stdout) : stdout[i] = stdout[j]

C34_Witness ==
    /\ route = "chain"
    /\ frontPc = "exited"
    /\ Len(shellCalls) = 2
    /\ shellCalls[1].via = "exec" /\ ~shellCalls[1].ok
    /\ shellCalls[2].via = "run" /\ shellCalls[2].ok
    /\ Len(stdout) = 2
    /\ firstSSHIndex(hostCommands) = 2
    /\ Contains(shellCalls[2].command, StrEscapedQuote)

\* The writes of the automation task that reached the PTY.
C38_Written == SelectSeq(autoWrites, LAMBDA w : w.ok)

C38_Step ==
    (mainPc = "returned" /\ ptmx = "closed") =>
       /\ C38_Written' = C38_Written
       /\ userFwd' = userFwd
       /\ stdinCopy' = stdinCopy

\* C38: once ConnectInteractive has returned and the PTY is closed, no
\* background task of the session writes to the PTY or reads the real
\* terminal's input (a step of the input copy reads the terminal).
C38_QuietAfterReturn == [][C38_Step]_vars

(***************************************************************************)
(* The session and its terminal                                            *)
(***************************************************************************)
\* ConnectInteractive has started the seed and has not returned.
C31_Running == seed # "none" /\ mainPc # "returned"

\* The half of C31 about the seed: once it has exited, the call returns.
C31_SeedExitEnds == (C31_Running /\ seed = "exited") ~> (mainPc = "returned")

\* C31: the session ends (ConnectInteractive returns) whenever the seed
\* process has exited and also whenever the real terminal's input has
\* ended, whatever the automation task is doing.
C31_SessionEnds ==
    (C31_Running /\ (seed = "exited" \/ ~stdinOpen)) ~> (mainPc = "returned")

\* The session lasts and the PTY does not have the window's size.
C36_Stale ==
    /\ ptmx = "open"
    /\ mainPc \notin {"ptyStart", "notify", "initialResize"}
    /\ ptySize # winSize

\* A stale size always has a notification waiting in ch behind it.
C36_StalePending == C36_Stale => (notified /\ sigCh = 1)

\* The listener sets the size the window has when it sets it.
C36_Step == (ptySize' # ptySize) => (ptySize' = winSize /\ sigCh = 1)

\* A notification came while one was waiting and was dropped: the window
\* has changed since the initial resize was queued and no resize was done.
C36_Dropped ==
    /\ C36_Stale
    /\ ptySize = "0x0"
    /\ winSize # "80x24"

\* C36: every resize notification received during the session is
\* eventually followed by the PTY being set to the size the window then
\* has, also when notifications come faster than the listener handles
\* them: a dropped notification leaves one waiting, so the PTY does not
\* keep a stale size.
C36_ResizeForwarded ==
    /\ []C36_StalePending
    /\ [][C36_Step]_vars
    /\ C36_Stale ~> (ptySize = winSize \/ ptmx # "open")

C36_Witness ==
    /\ ptmx = "open"
    /\ seed = "running"
    /\ winSize = "132x43"
    /\ ptySize = winSize
    /\ sigCh = 0
    /\ copied

(***************************************************************************)
(* Properties of the host-selection tree                                   *)
(***************************************************************************)
\* C40: after every key the cursor is on a visible node, 0 <= cursor <
\* number of visible nodes, whenever a node is visible; also after a
\* category is collapsed and after collapse-all and expand-all.
C40_CursorOnVisibleNode ==
    Len(mVisible) > 0 => (0 <= mCursor /\ mCursor < Len(mVisible))

=============================================================================
